---- MODULE Spec2Model ----
(***************************************************************************)
(* Model of the BSP client core of vscode-bsp: the BspClient session       *)
(* (src/src/bspClient.ts) and the BspConnectionManager registry that owns  *)
(* one BspClient per connection (src/src/targetManager.ts).                *)
(*                                                                         *)
(* Granularity: one action per run-to-completion block of the JavaScript   *)
(* event loop.  A call runs from its start to its first await on I/O (a    *)
(* file read or a JSON-RPC response); a continuation runs from the arrival *)
(* of what it awaited to the next such await.  An await on a promise that  *)
(* is already settled (await this.startBspServer(), the registry's await   *)
(* of a completed client call) resumes in the same block.  The server      *)
(* process, its responses, its notifications and its exit are the          *)
(* environment.  The JSON-RPC library (vscode-jsonrpc) is modelled by what *)
(* the client relies on: a request stays pending until its response is     *)
(* read or its connection is disposed; a write to a process that is gone   *)
(* is rejected; closing of the stream alone settles nothing.               *)
(***************************************************************************)
EXTENDS Integers, Sequences, FiniteSets, TLC

\* Bounds of the model.
MaxCalls == 2     \* calls issued by the outer layers in one behaviour
MaxProcs == 2     \* server processes spawned in one behaviour
MaxDiag == 1      \* diagnostics kept per file

\* Registered connections (one BspClient each), targets, files.
Clients == {"A", "B"}
Targets == {"app"}
Files == {"f", "g"}
DiagIds == {"d1"}
TargetLists == {<<"app">>, <<"lib", "app", "tests">>}

\* `undefined` in the fields connection / serverProcess.
NoProc == 0

\* StatusCode of bspTypes.ts.
StatusOk == 1
StatusError == 2
StatusCancelled == 3
StatusCodes == {StatusOk, StatusError, StatusCancelled}

ExecOps == {"compile", "test", "run"}
RequestOps == {"getBuildTargets", "compile", "test", "run", "reload", "debug"}

VARIABLES
    isConnected,      \* BspClient.isConnected, per client
    connection,       \* BspClient.connection: the process whose streams it wraps, or NoProc
    serverProcess,    \* BspClient.serverProcess, or NoProc
    buildTargets,     \* BspClient.buildTargets (cached target list)
    diagnostics,      \* BspClient.diagnosticsCollection: file -> list of diagnostics
    requestCounter,   \* BspClient.requestCounter
    activeRequests,   \* BspClient.activeRequests: set of request ids
    connections,      \* the BspConnection objects: id -> {connected, lastConnected, error},
                      \* and whether the id is in BspConnectionManager.connections
    proc,             \* server processes ever spawned, with the messages written to each
    calls,            \* the suspended calls, in the order they were issued, each with its position
    issued,           \* number of calls issued so far
    last,             \* the observable effect of the last step (log line, message shown, error raised)
    fired,            \* whether the last step fired BspConnectionManager.onDidChangeConnections
    managers,         \* TargetManagerRegistry.managers: the registered resolvers, in order
    buildData,        \* GenericTargetManager.buildData / XcodeManager.xcodeData, per
                      \* instance: target -> selected values
    workspaceState,   \* context.workspaceState and the workspace configuration:
                      \* storage key -> target -> saved selected values
    now,              \* the reading of Date.now()
    connectionIds     \* the keys of BspConnectionManager.connections as addConnection
                      \* builds them, each with the configPath of the client it maps to

clientVars == <<isConnected, connection, serverProcess, buildTargets, diagnostics,
                requestCounter, activeRequests>>
resolverVars == <<managers, buildData, workspaceState>>
idVars == <<now, connectionIds>>
vars == <<isConnected, connection, serverProcess, buildTargets, diagnostics,
          requestCounter, activeRequests, connections, proc, calls, issued, last,
          fired, managers, buildData, workspaceState, now, connectionIds>>

Ev(e, c, op, info) == [ev |-> e, c |-> c, op |-> op, info |-> info]
Quiet == Ev("none", "-", "-", "")

\* What a step of a session or of the connection registry shows: its log
\* line, message or error, and whether `this._onDidChangeConnections.fire()`
\* ran in it. No method of BspClient or BspConnectionManager reaches a
\* resolver.
Effect(e, fire) ==
    /\ last' = e
    /\ fired' = fire
    /\ UNCHANGED <<resolverVars, idVars>>

\* A suspended call: what it awaits (pc), on which connection (p), the state
\* of the request it awaits (st), the response on its way (res) and its key
\* in activeRequests.
\* via tells who made the call: an outer layer directly, removeConnection,
\* or connectAll / disconnectAll (with the number of that call).
NoResult == 0
Direct == <<"direct">>
NewCall(op, c, pc, p, st, key) ==
    [op |-> op, c |-> c, pc |-> pc, p |-> p, st |-> st, key |-> key, res |-> NoResult,
     via |-> Direct]
Settled == {"ok", "err", "rejected"}

EmptyDiagnostics == [f \in Files |-> <<>>]

\* The resolvers (TargetManager implementations): the GenericTargetManager
\* that BuildSystemManager registers itself, and one made for a named
\* build system and registered with registerTargetManager.
Resolvers == {"generic", "xcode"}
BuildSystemName(m) == IF m = "generic" THEN "Generic" ELSE "Xcode"
DataKind(m) == IF m = "generic" THEN "any" ELSE "sourceKit"

\* The XcodeManager of the tree provider, made without an extension
\* context: it keeps its selections in the workspace configuration
\* (section bsp.xcode, setting targets), the resolvers keep theirs in
\* context.workspaceState.
Managers == Resolvers \cup {"xcodeManager"}
\* Resolvers all made without an extension context.
HasContext_Never(m) == FALSE

HasContext(m) == m # "xcodeManager"
StorageKey(m) ==
    CASE m = "generic" -> "bsp.generic.targets"
      [] m = "xcode" -> "bsp.xcode.targets"
      [] OTHER -> "bsp.xcode/targets"
StorageKeys == {StorageKey(m) : m \in Managers}

\* The build targets the server advertises to the resolvers: their dataKind
\* and the selectors of their data, in the order of declaration (the data
\* of "raw" has configurations and destinations, but no selectors).
SelectorTargets == {"app", "lib", "raw"}
DataKindOf(t) == IF t = "app" THEN "swift" ELSE "sourceKit"
HasSelectors(t) == t # "raw"
SelectorsOf(t) ==
    CASE t = "app" -> <<"configuration", "destination">>
      [] t = "lib" -> <<"configuration">>
      [] OTHER -> <<>>
SelectorKeys == {"configuration", "destination"}
OptionsOf(k) == IF k = "configuration" THEN <<"Debug", "Release">> ELSE <<"mac", "ios">>
SelectorOptions == {"Debug", "Release", "mac", "ios"}
Arguments(o) ==
    CASE o = "Debug" -> <<"--debug">>
      [] o = "Release" -> <<"--release", "-O">>
      [] o = "mac" -> <<"--mac">>
      [] OTHER -> <<"--ios">>

\* An entry of buildData, and of the saved configurations: absent, or the
\* selectedValues object, its keys in the order they were first assigned.
NoEntry == [has |-> FALSE, selectedValues |-> <<>>]
Entry(sv) == [has |-> TRUE, selectedValues |-> sv]
NoConfigs == [t \in SelectorTargets |-> NoEntry]

\* A new BuildSystemManager over a workspaceState whose storage holds `stored`.
ResolverInit(stored) ==
    /\ managers = <<"generic">>
    /\ buildData = [m \in Managers |-> NoConfigs]
    /\ workspaceState = [value |-> stored, stored |-> stored]

InitOver(stored) ==
    /\ isConnected = [c \in Clients |-> FALSE]
    /\ connection = [c \in Clients |-> NoProc]
    /\ serverProcess = [c \in Clients |-> NoProc]
    /\ buildTargets = [c \in Clients |-> <<>>]
    /\ diagnostics = [c \in Clients |-> EmptyDiagnostics]
    /\ requestCounter = [c \in Clients |-> 0]
    /\ activeRequests = [c \in Clients |-> {}]
    /\ connections = [c \in Clients |-> [connected |-> FALSE, lastConnected |-> FALSE,
                                          error |-> "", registered |-> TRUE]]
    /\ proc = <<>>
    /\ calls = <<>>
    /\ issued = 0
    /\ last = Quiet
    /\ fired = FALSE
    /\ ResolverInit(stored)
    /\ now = 0
    /\ connectionIds = <<>>

\* The state after activation in a workspace whose storage is empty.
Init == InitOver([k \in StorageKeys |-> NoConfigs])

----------------------------------------------------------------------------
\* Helpers

Running(p) == p # NoProc /\ proc[p].status = "running"

\* A message written to the stdin of process p, with the target list of its
\* params (empty for the messages that carry none).
WriteWith(pr, p, m, ps) == [pr EXCEPT ![p].sent = Append(@, m), ![p].params = Append(@, ps)]
Write(pr, p, m) == WriteWith(pr, p, m, <<>>)

\* connection.sendRequest(m): written and pending if the process is there,
\* rejected if the process is gone.
RequestState(p) == IF Running(p) THEN "sent" ELSE "rejected"
SendRequest(pr, p, m) == IF Running(p) THEN Write(pr, p, m) ELSE pr
SendRequestWith(pr, p, m, ps) == IF Running(p) THEN WriteWith(pr, p, m, ps) ELSE pr

\* A call that returned or threw is no longer suspended.
Remove(cs, t) == SubSeq(cs, 1, t - 1) \o SubSeq(cs, t + 1, Len(cs))
FinishCall(t) == Remove(calls, t)

\* A call that completes in the block it was issued in / that suspends.
Returns == calls' = calls /\ issued' = issued + 1
Suspends(call) == calls' = Append(calls, call) /\ issued' = issued + 1

\* connect() without its guard.
AlreadyConnected_NoGuard(c) == FALSE

\* The guard of connect(): `if (this.isConnected) return`.
AlreadyConnected(c) == isConnected[c]

\* The guard of every request method: `if (!this.connection) throw`.
NotConnected(c) == connection[c] = NoProc

\* initializeConnection going on after a failed initialize request.
InitializeSucceeded_Swallowed(st) == TRUE

\* try/catch of initializeConnection: the continuation after the await runs
\* only when the initialize request resolved.
InitializeSucceeded(st) == st = "ok"

\* disconnect() going on after a failed shutdown request.
ShutdownSucceeded_Swallowed(st) == TRUE

\* try/catch of disconnect(): build/exit, dispose and kill follow the await
\* only when the shutdown request resolved.
ShutdownSucceeded(st) == st = "ok"

\* connectToServer: bookkeeping after client.connect() returned / threw.
RegConnectOk(c) ==
    [connections EXCEPT ![c].connected = TRUE, ![c].lastConnected = TRUE, ![c].error = ""]
\* The catch of connectToServer without `connection.error = ...`.
RegConnectErr_NoText(c, msg) == [connections EXCEPT ![c].connected = FALSE]

RegConnectErr(c, msg) == [connections EXCEPT ![c].connected = FALSE, ![c].error = msg]
\* disconnectFromServer marking every connection of the map.
RegDisconnected_All(c) == [d \in Clients |-> [connections[d] EXCEPT !.connected = FALSE]]

\* disconnectFromServer: bookkeeping after client.disconnect() returned.
RegDisconnected(c) == [connections EXCEPT ![c].connected = FALSE]
\* removeConnection: `this.connections.delete(connectionId)` after the
\* disconnect, when the call was made by removeConnection.
RegAfterDisconnect(c, via) ==
    IF via = <<"remove">>
    THEN [connections EXCEPT ![c].connected = FALSE, ![c].registered = FALSE]
    ELSE RegDisconnected(c)

\* A connect() that passed the isConnected guard will spawn one process.
SpawnsAhead == Cardinality({t \in DOMAIN calls : calls[t].pc = "findConfig"})

----------------------------------------------------------------------------
\* connect / connectToServer

ConnectFailed(t, c, why) ==
    /\ calls' = FinishCall(t) /\ UNCHANGED issued
    /\ connections' = RegConnectErr(c, why)
    /\ Effect(Ev("connectFailed", c, "connect", why), TRUE)
    /\ UNCHANGED <<clientVars, proc>>

\* connectToServer(id) for an id that is not in the map throws.
NotFound(c) ==
    /\ Returns
    /\ Effect(Ev("notFound", c, "connect", ""), FALSE)
    /\ UNCHANGED <<clientVars, proc, connections>>

ConnectToServer(c) ==
    /\ issued < MaxCalls
    /\ IF ~connections[c].registered THEN NotFound(c)
       ELSE
       IF AlreadyConnected(c)
       THEN /\ Returns
            /\ connections' = RegConnectOk(c)
            /\ Effect(Ev("connectNoop", c, "connect", ""), TRUE)
            /\ UNCHANGED <<clientVars, proc>>
       ELSE /\ Len(proc) + SpawnsAhead < MaxProcs
            /\ Suspends(NewCall("connect", c, "findConfig", NoProc, "none", <<>>))
            /\ Effect(Quiet, FALSE)
            /\ UNCHANGED <<clientVars, proc, connections>>

\* What becomes of the start of the server: no configuration was found,
\* spawn() threw, or the process was spawned.
StartOutcomes == {"noConfig", "spawnFailed", "spawned"}

\* findBspConnectionDetails() returned; then startBspServer() and the
\* build/initialize request of initializeConnection().
StartBspServer(t, outcome) ==
    /\ t \in DOMAIN calls
    /\ calls[t].pc = "findConfig"
    /\ LET c == calls[t].c
           p == Len(proc) + 1
       IN IF outcome # "spawned"
          THEN ConnectFailed(t, c, outcome)
          ELSE /\ proc' = Append(proc, [owner |-> c, status |-> "running", killed |-> FALSE,
                                        disposed |-> FALSE, sent |-> <<"build/initialize">>,
                                        params |-> << <<>> >>,
                                        observed |-> FALSE, published |-> <<>>])
               /\ serverProcess' = [serverProcess EXCEPT ![c] = p]
               /\ connection' = [connection EXCEPT ![c] = p]
               /\ calls' = [calls EXCEPT ![t] = [NewCall("connect", c, "initialize", p, "sent", <<>>)
                                                    EXCEPT !.via = calls[t].via]]
               /\ UNCHANGED issued
               /\ Effect(Quiet, FALSE)
               /\ UNCHANGED <<isConnected, buildTargets, diagnostics, requestCounter,
                              activeRequests, connections>>

\* The initialize request settled: build/initialized, isConnected = true.
InitializeConnection(t) ==
    /\ t \in DOMAIN calls
    /\ calls[t].pc = "initialize"
    /\ calls[t].st \in Settled
    /\ LET c == calls[t].c
           q == connection[c]
       IN IF InitializeSucceeded(calls[t].st) /\ q # NoProc
          THEN \E thrown \in (IF Running(q) THEN {FALSE} ELSE BOOLEAN) :
                 IF thrown
                 THEN ConnectFailed(t, c, "initFailed")
                 ELSE /\ proc' = Write(proc, q, "build/initialized")
                      /\ isConnected' = [isConnected EXCEPT ![c] = TRUE]
                      /\ connections' = RegConnectOk(c)
                      /\ calls' = FinishCall(t) /\ UNCHANGED issued
                      /\ Effect(Ev("connected", c, "connect", ""), TRUE)
                      /\ UNCHANGED <<connection, serverProcess, buildTargets, diagnostics,
                                     requestCounter, activeRequests>>
          ELSE ConnectFailed(t, c, "initFailed")

----------------------------------------------------------------------------
\* disconnect / disconnectFromServer

\* connection.dispose(): every request pending on the connection is rejected
\* and nothing is read from it any more.
Dispose(cs, q, t) ==
    Remove([u \in DOMAIN cs |->
                IF cs[u].p = q /\ cs[u].st \in {"sent", "ok", "err"}
                THEN [cs[u] EXCEPT !.st = "rejected", !.res = NoResult]
                ELSE cs[u]], t)

\* serverProcess.kill()
Kill(pr, sp) ==
    IF sp = NoProc THEN pr
    ELSE [pr EXCEPT ![sp].status = IF @ = "running" THEN "exited" ELSE @,
                    ![sp].killed = @ \/ pr[sp].status = "running"]

\* The tail of disconnect(): kill the process, isConnected = false, clear
\* the diagnostics collection.
CloseTransport(c, pr) ==
    /\ proc' = Kill(pr, serverProcess[c])
    /\ serverProcess' = [serverProcess EXCEPT ![c] = NoProc]
    /\ isConnected' = [isConnected EXCEPT ![c] = FALSE]
    /\ diagnostics' = [diagnostics EXCEPT ![c] = EmptyDiagnostics]

\* disconnectFromServer(id), called directly or by removeConnection(id).
DisconnectVia(c, via) ==
    /\ issued < MaxCalls
    /\ IF ~connections[c].registered
       THEN \* no such connection: both return at once
            /\ Returns
            /\ Effect(Ev("disconnectNoop", c, "disconnect", ""), FALSE)
            /\ UNCHANGED <<clientVars, proc, connections>>
       ELSE
       IF connections[c].connected /\ isConnected[c]
       THEN IF connection[c] # NoProc
            THEN \* await this.connection.sendRequest('build/shutdown')
                 /\ proc' = SendRequest(proc, connection[c], "build/shutdown")
                 /\ Suspends([NewCall("disconnect", c, "shutdown", connection[c],
                                                    RequestState(connection[c]), <<>>)
                                  EXCEPT !.via = via])
                 /\ Effect(Quiet, FALSE)
                 /\ UNCHANGED <<clientVars, connections>>
            ELSE /\ CloseTransport(c, proc)
                 /\ Returns
                 /\ connections' = RegAfterDisconnect(c, via)
                 /\ Effect(Ev("disconnected", c, "disconnect", ""), TRUE)
                 /\ UNCHANGED <<connection, buildTargets, requestCounter, activeRequests>>
       ELSE \* not connected in the registry, or disconnect() returned at once
            /\ Returns
            /\ connections' = RegAfterDisconnect(c, via)
            /\ Effect(Ev("disconnectNoop", c, "disconnect", ""), TRUE)
            /\ UNCHANGED <<clientVars, proc>>

DisconnectFromServer(c) == DisconnectVia(c, Direct)

\* removeConnection(id): disconnectFromServer(id), then the id leaves the map.
RemoveConnection(c) == DisconnectVia(c, <<"remove">>)

DisconnectFailed(t, c) ==
    /\ calls' = FinishCall(t) /\ UNCHANGED issued
    /\ connections' = RegAfterDisconnect(c, calls[t].via)
    /\ Effect(Ev("disconnectFailed", c, "disconnect", ""), TRUE)
    /\ UNCHANGED <<clientVars, proc>>

\* The shutdown request settled: build/exit, dispose, kill.
Disconnect(t) ==
    /\ t \in DOMAIN calls
    /\ calls[t].pc = "shutdown"
    /\ calls[t].st \in Settled
    /\ LET c == calls[t].c
           q == connection[c]
       IN IF ShutdownSucceeded(calls[t].st) /\ q # NoProc
          THEN \E thrown \in (IF Running(q) THEN {FALSE} ELSE BOOLEAN) :
                 IF thrown
                 THEN DisconnectFailed(t, c)
                 ELSE /\ CloseTransport(c, [Write(proc, q, "build/exit") EXCEPT ![q].disposed = TRUE])
                      /\ connection' = [connection EXCEPT ![c] = NoProc]
                      /\ calls' = Dispose(calls, q, t) /\ UNCHANGED issued
                      /\ connections' = RegAfterDisconnect(c, calls[t].via)
                      /\ Effect(Ev("disconnected", c, "disconnect", ""), TRUE)
                      /\ UNCHANGED <<buildTargets, requestCounter, activeRequests>>
          ELSE DisconnectFailed(t, c)

----------------------------------------------------------------------------
\* connectAll / disconnectAll: connectToServer / disconnectFromServer is
\* started for every id of the map, in the order of the map, each up to its
\* first await; Promise.allSettled then waits for all of them.

ClientOrder == <<"A", "B">>
Registered(c) == connections[c].registered

\* The record of a connectAll / disconnectAll call waiting in allSettled.
Aggregate(op, id) ==
    [NewCall(op, "-", "allSettled", NoProc, "none", <<>>) EXCEPT !.via = id]

\* getConnectedClients(): the ids of the map whose entry is marked connected.
GetConnectedClients == {c \in Clients : Registered(c) /\ connections[c].connected}

ConnectAll ==
    /\ issued < MaxCalls
    /\ LET id == <<"all", issued + 1>>
           Starts(c) == Registered(c) /\ ~AlreadyConnected(c)
           S == SelectSeq(ClientOrder, Starts)
           kids == [i \in 1..Len(S) |->
                      [NewCall("connect", S[i], "findConfig", NoProc, "none", <<>>)
                          EXCEPT !.via = id]]
       IN /\ Len(proc) + SpawnsAhead + Len(S) <= MaxProcs
          /\ calls' = calls \o kids \o <<Aggregate("connectAll", id)>>
          /\ issued' = issued + 1
          /\ connections' = [c \in Clients |->
                                IF Registered(c) /\ AlreadyConnected(c)
                                THEN RegConnectOk(c)[c] ELSE connections[c]]
          /\ Effect(Quiet, \E c \in Clients : Registered(c) /\ AlreadyConnected(c))
          /\ UNCHANGED <<clientVars, proc>>

DisconnectAll ==
    /\ issued < MaxCalls
    /\ LET id == <<"all", issued + 1>>
           Tries(c) == Registered(c) /\ connections[c].connected /\ isConnected[c]
           Shuts(c) == Tries(c) /\ connection[c] # NoProc
           Closes(c) == Tries(c) /\ connection[c] = NoProc
           S == SelectSeq(ClientOrder, Shuts)
           kids == [i \in 1..Len(S) |->
                      [NewCall("disconnect", S[i], "shutdown", connection[S[i]],
                               RequestState(connection[S[i]]), <<>>)
                          EXCEPT !.via = id]]
       IN /\ calls' = calls \o kids \o <<Aggregate("disconnectAll", id)>>
          /\ issued' = issued + 1
          /\ proc' = [p \in DOMAIN proc |->
                        IF Shuts(proc[p].owner) /\ connection[proc[p].owner] = p
                        THEN SendRequest(proc, p, "build/shutdown")[p]
                        ELSE IF Closes(proc[p].owner) /\ serverProcess[proc[p].owner] = p
                             THEN Kill(proc, p)[p]
                             ELSE proc[p]]
          /\ serverProcess' = [c \in Clients |-> IF Closes(c) THEN NoProc ELSE serverProcess[c]]
          /\ isConnected' = [c \in Clients |-> IF Closes(c) THEN FALSE ELSE isConnected[c]]
          /\ diagnostics' = [c \in Clients |->
                                IF Closes(c) THEN EmptyDiagnostics ELSE diagnostics[c]]
          /\ connections' = [c \in Clients |->
                                IF Registered(c) /\ ~Shuts(c)
                                THEN [connections[c] EXCEPT !.connected = FALSE]
                                ELSE connections[c]]
          /\ Effect(Quiet, \E c \in Clients : Registered(c) /\ ~Shuts(c))
          /\ UNCHANGED <<connection, buildTargets, requestCounter, activeRequests>>

\* Promise.allSettled(promises) resolved: every call it started is over.
AllSettled(t) ==
    /\ t \in DOMAIN calls
    /\ calls[t].pc = "allSettled"
    /\ \A u \in DOMAIN calls \ {t} : calls[u].via # calls[t].via
    /\ calls' = FinishCall(t) /\ UNCHANGED issued
    /\ Effect(Ev("allSettled", "-", calls[t].op, ""), FALSE)
    /\ UNCHANGED <<clientVars, connections, proc>>

----------------------------------------------------------------------------
\* The server process (environment) and its events

\* The results a server can give to the request of a call: a status code
\* for buildTarget/compile, /test and /run.
Results(call) ==
    IF call.op \in ExecOps /\ call.pc = "await" THEN StatusCodes ELSE {NoResult}

\* The server answers a pending request, with a result or with an error.
\* The response names the request it answers (JSON-RPC id), and the library
\* settles the promise of that request when it reads the response.
ServerRespond(t, ok) ==
    /\ t \in DOMAIN calls
    /\ calls[t].st = "sent"
    /\ Running(calls[t].p)
    /\ \E r \in (IF ok THEN Results(calls[t]) ELSE {NoResult}) :
          calls' = [calls EXCEPT ![t].st = IF ok THEN "ok" ELSE "err", ![t].res = r]
    /\ UNCHANGED issued
    /\ Effect(Quiet, FALSE)
    /\ UNCHANGED <<clientVars, connections, proc>>

\* The server process ends on its own.
ServerExit(p) ==
    /\ p \in DOMAIN proc
    /\ proc[p].status = "running"
    /\ proc' = [proc EXCEPT ![p].status = "exited"]
    /\ Effect(Quiet, FALSE)
    /\ UNCHANGED <<clientVars, connections, calls, issued>>

\* serverProcess.on('exit', ...)
OnExit(p) ==
    /\ p \in DOMAIN proc
    /\ proc[p].status = "exited"
    /\ LET c == proc[p].owner
       IN /\ proc' = [proc EXCEPT ![p].status = "reaped"]
          /\ isConnected' = [isConnected EXCEPT ![c] = FALSE]
          /\ connection' = [connection EXCEPT ![c] = NoProc]
          /\ serverProcess' = [serverProcess EXCEPT ![c] = NoProc]
          /\ Effect(Ev("serverExited", c, "-", IF proc[p].killed THEN "killed" ELSE "unexpected"), FALSE)
          /\ UNCHANGED <<buildTargets, diagnostics, requestCounter, activeRequests,
                         connections, calls, issued>>

----------------------------------------------------------------------------
\* Inbound notifications (setupNotificationHandlers).  The handlers are
\* registered on the connection before listen(), so they run for whatever
\* the process writes from the moment it is spawned.

Listening(p) == p \in DOMAIN proc /\ proc[p].status = "running" /\ ~proc[p].disposed

\* params.type of build/showMessage: 0 stands for a missing type, 5 for a
\* number the protocol does not know.
MessageTypes == {0, 1, 2, 3, 4, 5}
TaskMethods == {"build/taskStart", "build/taskFinish", "build/taskProgress", "build/logMessage"}
UnknownMethod == "build/unknown"

\* The params of a notification: missing, or an object with or without a
\* type (a missing message only changes the text shown, `params.message ||
\* '...'`).
NoParams == [present |-> FALSE, type |-> 0]
NotificationParams == {NoParams} \cup {[present |-> TRUE, type |-> ty] : ty \in MessageTypes}

\* showMessage routing everything that is not an error to info.
Sink_NoWarning(m, params) ==
    CASE m \in {"build/taskStart", "build/taskFinish", "build/logMessage", "build/showMessage"}
            /\ ~params.present -> "handlerError"
      [] m \in {"build/taskStart", "build/taskFinish"} -> "statusBar"
      [] m \in {"build/taskProgress", "build/logMessage"} -> "log"
      [] m = "build/showMessage" /\ params.type = 1 -> "error"
      [] OTHER -> "info"

\* Where the handler of a notification puts it.  Reading a field of missing
\* params throws in the handler (all but build/taskProgress read
\* params.message); the connection catches what a handler throws and logs
\* it.
Sink(m, params) ==
    CASE m \in {"build/taskStart", "build/taskFinish", "build/logMessage", "build/showMessage"}
            /\ ~params.present -> "handlerError"
      [] m \in {"build/taskStart", "build/taskFinish"} -> "statusBar"
      [] m \in {"build/taskProgress", "build/logMessage"} -> "log"
      [] m = "build/showMessage" /\ params.type = 1 -> "error"
      [] m = "build/showMessage" /\ params.type = 2 -> "warning"
      [] OTHER -> "info"

\* A notification is read from process p: its handler runs, or there is
\* none for the method and the connection drops it.
OnNotification(p, m, params) ==
    /\ Listening(p)
    /\ Effect(IF m = UnknownMethod THEN Ev("unhandled", proc[p].owner, m, "ignored")
              ELSE Ev("dispatch", proc[p].owner, m, Sink(m, params)), FALSE)
    /\ UNCHANGED <<clientVars, connections, proc, calls, issued>>

\* handleDiagnostics that puts the new diagnostics in front of the old ones.
HandleDiagnostics_Prepend(old, ds, reset) == IF reset THEN ds ELSE ds \o old

\* handleDiagnostics: reset replaces the list of the file, otherwise append.
HandleDiagnostics(old, ds, reset) == IF reset THEN ds ELSE old \o ds

\* The notifications a process has written are kept (published) for the
\* processes whose output is observed, MaxPublished of them at most.
MaxPublished == MaxDiag + 3
Publishes(pr, p, f, ds, reset) ==
    IF pr[p].observed
    THEN [pr EXCEPT ![p].published = Append(@, [f |-> f, ds |-> ds, reset |-> reset])]
    ELSE pr

OnPublishDiagnostics(p, f, ds, reset) ==
    /\ Listening(p)
    /\ LET c == proc[p].owner
           new == HandleDiagnostics(diagnostics[c][f], ds, reset)
       IN /\ IF proc[p].observed THEN Len(proc[p].published) < MaxPublished
                                  ELSE Len(new) <= MaxDiag
          /\ diagnostics' = [diagnostics EXCEPT ![c][f] = new]
          /\ proc' = Publishes(proc, p, f, ds, reset)
          /\ Effect(Ev("dispatch", c, "build/publishDiagnostics", "diagnostics"), FALSE)
    /\ UNCHANGED <<isConnected, connection, serverProcess, buildTargets, requestCounter,
                   activeRequests, connections, calls, issued>>

----------------------------------------------------------------------------
\* Requests

Method(op) ==
    CASE op = "compile" -> "buildTarget/compile"
      [] op = "test" -> "buildTarget/test"
      [] op = "run" -> "buildTarget/run"
      [] op = "reload" -> "workspace/reload"
      [] op = "debug" -> "debugSession/start"
      [] OTHER -> "workspace/buildTargets"

\* The call is refused before anything is written.
Refused(c, op) ==
    /\ Returns
    /\ Effect(Ev("notConnected", c, op, ""), FALSE)
    /\ UNCHANGED <<isConnected, connection, serverProcess, buildTargets, diagnostics,
                   activeRequests, connections, proc>>

\* The request of a call is written (or rejected by the writer).
Issue(c, op, key, ps) ==
    /\ proc' = SendRequestWith(proc, connection[c], Method(op), ps)
    /\ Suspends(NewCall(op, c, "await", connection[c],
                                     RequestState(connection[c]), key))
    /\ Effect(Quiet, FALSE)
    /\ UNCHANGED <<isConnected, connection, serverProcess, buildTargets, diagnostics, connections>>

GetBuildTargets(c) ==
    /\ issued < MaxCalls
    /\ IF NotConnected(c)
       THEN Refused(c, "getBuildTargets") /\ UNCHANGED requestCounter
       ELSE Issue(c, "getBuildTargets", <<>>, <<>>) /\ UNCHANGED <<requestCounter, activeRequests>>

Debug(c, tgt) ==
    /\ issued < MaxCalls
    /\ IF NotConnected(c)
       THEN Refused(c, "debug") /\ UNCHANGED requestCounter
       ELSE Issue(c, "debug", <<>>, <<tgt>>) /\ UNCHANGED <<requestCounter, activeRequests>>

\* executeWithProgress(operation, targetId, task): compile, test, run and
\* reload.  The request id takes the counter; the entry is set after task()
\* was started and deleted in its finally.
\* A request id without the counter.
RequestId_NoCounter(op, n, tgt) == <<op, 0, tgt>>

RequestId(op, n, tgt) == <<op, n, tgt>>

\* params of the request: `targets: [{ uri: targetId }]` for compile and
\* test, `target: { uri: targetId }` for run, none for workspace/reload.
Params(op, tgt) == IF op \in ExecOps THEN <<tgt>> ELSE <<>>

\* executeWithProgress letting one operation run at a time: a call made
\* while another is pending is turned away.
ExecuteWithProgress_Serialized(c, op, tgt) ==
    /\ issued < MaxCalls
    /\ requestCounter' = [requestCounter EXCEPT ![c] = @ + 1]
    /\ IF NotConnected(c) \/ activeRequests[c] # {}
       THEN Refused(c, op)
       ELSE /\ Issue(c, op, RequestId(op, requestCounter[c], tgt), Params(op, tgt))
            /\ activeRequests' = [activeRequests EXCEPT
                                    ![c] = @ \cup {RequestId(op, requestCounter[c], tgt)}]

ExecuteWithProgress(c, op, tgt) ==
    /\ issued < MaxCalls
    /\ requestCounter' = [requestCounter EXCEPT ![c] = @ + 1]
    /\ IF NotConnected(c)
       THEN Refused(c, op)
       ELSE /\ Issue(c, op, RequestId(op, requestCounter[c], tgt), Params(op, tgt))
            /\ activeRequests' = [activeRequests EXCEPT
                                    ![c] = @ \cup {RequestId(op, requestCounter[c], tgt)}]

Compile(c, tgt) == ExecuteWithProgress(c, "compile", tgt)
Test(c, tgt) == ExecuteWithProgress(c, "test", tgt)
Run(c, tgt) == ExecuteWithProgress(c, "run", tgt)
Reload(c) == ExecuteWithProgress(c, "reload", "workspace")

\* The finally of executeWithProgress that forgets to delete the entry.
Finally_KeepsEntry(ar, c, key) == ar

\* The finally of executeWithProgress: `this.activeRequests.delete(requestId)`.
Finally(ar, c, key) == [ar EXCEPT ![c] = @ \ {key}]

\* handleCompileResult taking every status code but Error for a success.
HandleResult_NotError(sc) == IF sc # StatusError THEN "success" ELSE "failure"

\* handleCompileResult / handleTestResult / handleRunResult: the message
\* shown for the status code of the result.
HandleResult(sc) == IF sc = StatusOk THEN "success" ELSE "failure"

\* token.onCancellationRequested of a call under withProgress: the entry is
\* deleted; the request and the promise the caller awaits are left as they
\* are.  The token fires once, and only while the call is pending.
Cancel(t) ==
    /\ t \in DOMAIN calls
    /\ calls[t].key # <<>>
    /\ calls[t].key \in activeRequests[calls[t].c]
    /\ activeRequests' = [activeRequests EXCEPT ![calls[t].c] = @ \ {calls[t].key}]
    /\ Effect(Ev("cancelled", calls[t].c, calls[t].op, ""), FALSE)
    /\ UNCHANGED <<isConnected, connection, serverProcess, buildTargets, diagnostics,
                   requestCounter, connections, proc, calls, issued>>

\* cancelAllRequests(): the map is cleared, nothing else (on an empty map
\* there is nothing to see but a log line).
CancelAllRequests(c) ==
    /\ activeRequests[c] # {}
    /\ activeRequests' = [activeRequests EXCEPT ![c] = {}]
    /\ Effect(Ev("cancelAll", c, "-", ""), FALSE)
    /\ UNCHANGED <<isConnected, connection, serverProcess, buildTargets, diagnostics,
                   requestCounter, connections, proc, calls, issued>>

\* A request failed: the error is logged and rethrown, the entry deleted.
RequestFailed(t) ==
    /\ calls' = FinishCall(t) /\ UNCHANGED issued
    /\ activeRequests' = Finally(activeRequests, calls[t].c, calls[t].key)
    /\ Effect(Ev("requestFailed", calls[t].c, calls[t].op, ""), FALSE)
    /\ UNCHANGED <<isConnected, connection, serverProcess, buildTargets, diagnostics,
                   requestCounter, connections, proc>>

\* workspace/buildTargets settled (getBuildTargets, on its own or as the
\* second step of reload).
BuildTargetsResult(t) ==
    /\ t \in DOMAIN calls
    /\ \/ calls[t].op = "getBuildTargets" /\ calls[t].pc = "await"
       \/ calls[t].op = "reload" /\ calls[t].pc = "reloadTargets"
    /\ calls[t].st \in Settled
    /\ IF calls[t].st = "ok"
       THEN \E ts \in TargetLists :
              /\ buildTargets' = [buildTargets EXCEPT ![calls[t].c] = ts]
              /\ calls' = FinishCall(t) /\ UNCHANGED issued
              /\ activeRequests' = Finally(activeRequests, calls[t].c, calls[t].key)
              /\ Effect(Ev("targetsUpdated", calls[t].c, calls[t].op, ""), FALSE)
              /\ UNCHANGED <<isConnected, connection, serverProcess, diagnostics,
                             requestCounter, connections, proc>>
       ELSE RequestFailed(t)

\* buildTarget/compile, /test or /run settled: handleCompileResult etc.
ExecuteResult(t) ==
    /\ t \in DOMAIN calls
    /\ calls[t].op \in ExecOps
    /\ calls[t].pc = "await"
    /\ calls[t].st \in Settled
    /\ IF calls[t].st = "ok"
       THEN /\ calls' = FinishCall(t) /\ UNCHANGED issued
            /\ activeRequests' = Finally(activeRequests, calls[t].c, calls[t].key)
            /\ Effect(Ev("result", calls[t].c, calls[t].op, HandleResult(calls[t].res)), FALSE)
            /\ UNCHANGED <<isConnected, connection, serverProcess, buildTargets, diagnostics,
                           requestCounter, connections, proc>>
       ELSE RequestFailed(t)

\* workspace/reload settled: refresh the targets with getBuildTargets().
ReloadResult(t) ==
    /\ t \in DOMAIN calls
    /\ calls[t].op = "reload"
    /\ calls[t].pc = "await"
    /\ calls[t].st \in Settled
    /\ LET c == calls[t].c
       IN IF calls[t].st = "ok" /\ ~NotConnected(c)
          THEN /\ proc' = SendRequest(proc, connection[c], "workspace/buildTargets")
               /\ calls' = [calls EXCEPT ![t].pc = "reloadTargets", ![t].p = connection[c],
                                         ![t].st = RequestState(connection[c])]
               /\ UNCHANGED issued
               /\ Effect(Quiet, FALSE)
               /\ UNCHANGED <<clientVars, connections>>
          ELSE RequestFailed(t)

\* The addresses a server gives in the result of debugSession/start, and
\* their characters after the scheme ("h" a letter, "8" a digit).  The
\* last one is a result without uri.
NoUri == "undefined"
Addresses == {"tcp://h:8", "tcp://h:88", "tcp://h:8h", "tcp://h", "tcp://:8", "tcp://h:h",
              "unix:///s", "ws://h:8", NoUri}
Scheme(uri) ==
    CASE uri \in {"tcp://h:8", "tcp://h:88", "tcp://h:8h", "tcp://h", "tcp://:8", "tcp://h:h"}
             -> "tcp://"
      [] uri = "unix:///s" -> "unix://"
      [] OTHER -> "ws://"
Rest(uri) ==
    CASE uri = "tcp://h:8" -> <<"h", ":", "8">>
      [] uri = "tcp://h:88" -> <<"h", ":", "8", "8">>
      [] uri = "tcp://h:8h" -> <<"h", ":", "8", "h">>
      [] uri = "tcp://h" -> <<"h">>
      [] uri = "tcp://:8" -> <<":", "8">>
      [] uri = "tcp://h:h" -> <<"h", ":", "h">>
      [] uri = "unix:///s" -> <<"/", "s">>
      [] OTHER -> <<"h", ":", "8">>
Digits == {"8"}

\* parseInt of a run of digits.
ParseInt(ds) ==
    LET RECURSIVE Value(_)
        Value(i) == IF i = 0 THEN 0 ELSE 10 * Value(i - 1) + 8
    IN Value(Len(ds))

\* debugAddress.match(/tcp:\/\/([^:]+):(\d+)/) on what follows the scheme:
\* one character or more up to the first colon, then as many digits as
\* there are, at least one.
NoMatch == [matched |-> FALSE, host |-> <<>>, port |-> 0]
Match(rest) ==
    LET Colons == {i \in DOMAIN rest : rest[i] = ":"}
    IN IF Colons = {} THEN NoMatch
       ELSE LET i == CHOOSE x \in Colons : \A y \in Colons : x <= y
                DigitRun == {n \in 1..(Len(rest) - i) :
                           \A j \in (i + 1)..(i + n) : rest[j] \in Digits}
            IN IF i = 1 \/ DigitRun = {} THEN NoMatch
               ELSE [matched |-> TRUE, host |-> SubSeq(rest, 1, i - 1),
                     port |-> ParseInt(SubSeq(rest, i + 1, i + Cardinality(DigitRun)))]

\* The `connect` of the configuration handleDebugResult gives to
\* startVSCodeDebugSession, if it gives one.
NoAttach == [kind |-> "none", host |-> <<>>, port |-> 0, socket |-> <<>>]
AttachOf(uri) ==
    IF uri = NoUri THEN NoAttach
    ELSE IF Scheme(uri) = "tcp://"
    THEN IF Match(Rest(uri)).matched
         THEN [kind |-> "tcp", host |-> Match(Rest(uri)).host, port |-> Match(Rest(uri)).port,
               socket |-> <<>>]
         ELSE NoAttach
    ELSE IF Scheme(uri) = "unix://"
    THEN [kind |-> "unix", host |-> <<>>, port |-> 0, socket |-> Rest(uri)]
    ELSE NoAttach

\* handleDebugResult(result, targetId) up to its first await.
HandleDebugResult(uri) == AttachOf(uri)

\* debugSession/start settled: debug() calls handleDebugResult without
\* awaiting it and returns the result.  handleDebugResult runs up to its
\* await of startVSCodeDebugSession; with nothing to attach to it shows
\* "Debug session started" at once, and an error reading the uri is caught
\* and shown.  A failed request is rethrown.
DebugResult(t, uri) ==
    /\ t \in DOMAIN calls
    /\ calls[t].op = "debug"
    /\ calls[t].pc = "await"
    /\ calls[t].st \in Settled
    /\ IF calls[t].st = "ok"
       THEN /\ IF HandleDebugResult(uri).kind = "none"
               THEN /\ calls' = FinishCall(t)
                    /\ Effect(Ev(IF uri = NoUri THEN "debugStartFailed" ELSE "debugStarted",
                                 calls[t].c, "debug", uri), FALSE)
               ELSE /\ calls' = [calls EXCEPT ![t].pc = "startDebugging", ![t].p = NoProc,
                                             ![t].st = "none",
                                             ![t].res = HandleDebugResult(uri)]
                    /\ Effect(Ev("debugReturned", calls[t].c, "debug", uri), FALSE)
            /\ UNCHANGED issued
            /\ UNCHANGED <<clientVars, connections, proc>>
       ELSE RequestFailed(t)

\* startVSCodeDebugSession whose failure closes the session.
StartVSCodeDebugSession_Closes(t, started) ==
    /\ t \in DOMAIN calls
    /\ calls[t].pc = "startDebugging"
    /\ calls' = FinishCall(t) /\ UNCHANGED issued
    /\ Effect(Ev(IF started THEN "debugStarted" ELSE "debugStartFailed",
                 calls[t].c, "debug", "attach"), FALSE)
    /\ isConnected' = [isConnected EXCEPT ![calls[t].c] = started /\ @]
    /\ UNCHANGED <<connection, serverProcess, buildTargets, diagnostics, requestCounter,
                   activeRequests, connections, proc>>

\* startVSCodeDebugSession settled: the session started and the message
\* says so, or it threw (no workspace folder, startDebugging gave false)
\* and the catch of handleDebugResult logs and shows the error.
StartVSCodeDebugSession(t, started) ==
    /\ t \in DOMAIN calls
    /\ calls[t].pc = "startDebugging"
    /\ calls' = FinishCall(t) /\ UNCHANGED issued
    /\ Effect(Ev(IF started THEN "debugStarted" ELSE "debugStartFailed",
                 calls[t].c, "debug", "attach"), FALSE)
    /\ UNCHANGED <<clientVars, connections, proc>>

----------------------------------------------------------------------------
\* The argument resolvers: TargetManagerRegistry, BuildSystemManager and
\* GenericTargetManager.  context.workspaceState (a Memento of the editor) is
\* the environment: get(key) returns the value last given to update(key, _),
\* update() replaces that value at once and its promise settles later, when
\* the storage has written the value or has failed to write it; a new
\* extension host starts from what the storage holds.  The XcodeManager of
\* the tree provider has no context and uses the workspace configuration.

\* What a step of the resolvers shows; no session, connection or server
\* process is reachable from them.
Shows(e) ==
    /\ last' = e
    /\ fired' = FALSE
    /\ UNCHANGED <<clientVars, connections, proc, idVars>>

\* What a step of handleDynamicSelection shows: the selection it is about
\* and the configuration-changed events fired in it (their target ids).
Selection(t, k, o, events) == [target |-> t, key |-> k, option |-> o, events |-> events]

\* canHandle(target).
CanHandle(m, t) ==
    IF BuildSystemName(m) = "Generic" THEN HasSelectors(t) ELSE DataKindOf(t) = DataKind(m)

\* getManagerForTarget(target) that takes the resolver registered last.
GetManagerForTarget_Last(ms, t) ==
    LET I == {i \in DOMAIN ms : CanHandle(ms[i], t)}
    IN IF I = {} THEN "none" ELSE ms[CHOOSE i \in I : \A j \in I : j <= i]

\* getManagerForTarget(target): this.managers.find(m => m.canHandle(target)).
GetManagerForTarget(ms, t) ==
    LET I == {i \in DOMAIN ms : CanHandle(ms[i], t)}
    IN IF I = {} THEN "none" ELSE ms[CHOOSE i \in I : \A j \in I : i <= j]

\* register(manager) / registerTargetManager(manager): push.
MaxManagers == 3
Register(m) ==
    /\ Len(managers) < MaxManagers
    /\ managers' = Append(managers, m)
    /\ Shows(Ev("registered", m, "register", ""))
    /\ UNCHANGED <<buildData, workspaceState, calls, issued>>

\* unregister(manager): splice(indexOf(manager), 1) when it is there.
Unregister(m) ==
    /\ LET I == {i \in DOMAIN managers : managers[i] = m}
       IN managers' = IF I = {} THEN managers
                      ELSE Remove(managers, CHOOSE i \in I : \A j \in I : i <= j)
    /\ Shows(Ev("unregistered", m, "unregister", ""))
    /\ UNCHANGED <<buildData, workspaceState, calls, issued>>

\* buildData.selectedValues[selectorKey] = selectedValue: a key that is
\* already there keeps its place, a new key goes last.
SetValue(sv, k, o) ==
    IF \E i \in DOMAIN sv : sv[i].key = k
    THEN [i \in DOMAIN sv |-> IF sv[i].key = k THEN [key |-> k, option |-> o] ELSE sv[i]]
    ELSE Append(sv, [key |-> k, option |-> o])

\* loadBuildSettings that does not look at what is saved.
LoadBuildSettings_Ignored(savedConfigs, t) == <<>>

\* loadBuildSettings(targetId): the saved selectedValues, or {}.
LoadBuildSettings(savedConfigs, t) ==
    IF savedConfigs[t].has THEN savedConfigs[t].selectedValues ELSE <<>>

\* BuildSystemManager.extractCustomData(target) and the extractCustomData of
\* the resolver it picks.
ExtractCustomData(t) ==
    LET m == GetManagerForTarget(managers, t)
    IN /\ IF m # "none" /\ HasSelectors(t)
          THEN /\ buildData' = [buildData EXCEPT ![m][t] = Entry(LoadBuildSettings(workspaceState.value[StorageKey(m)], t))]
               /\ Shows(Ev("extracted", m, "extractCustomData", <<t>>))
          ELSE /\ UNCHANGED buildData
               /\ Shows(Ev("null", m, "extractCustomData", <<t>>))
       /\ UNCHANGED <<managers, workspaceState, calls, issued>>

\* buildArguments(targetId, action): the arguments of every selected value,
\* in the order of Object.entries(selectedValues).
BuildArguments(sv, t) ==
    LET RECURSIVE Walk(_)
        Walk(i) == IF i > Len(sv) THEN <<>> ELSE Arguments(sv[i].option) \o Walk(i + 1)
    IN Walk(1)

\* getCompileArguments / getTestArguments / getRunArguments of resolver m.
GetArguments(m, t) ==
    IF buildData[m][t].has THEN BuildArguments(buildData[m][t].selectedValues, t) ELSE <<>>

\* BuildSystemManager.getCompileArguments(target) (getTestArguments and
\* getRunArguments are the same code).
GetCompileArguments(t) ==
    LET m == GetManagerForTarget(managers, t)
    IN IF m = "none" THEN <<>> ELSE GetArguments(m, t)

\* saveBuildSettings that leaves the saved configurations as it read them.
SavedConfigs_Unchanged(savedConfigs, t, sv) == savedConfigs

\* saveBuildSettings(targetId) up to its await: the saved configurations
\* read from the store, with the entry of the target replaced.
SavedConfigs(savedConfigs, t, sv) == [savedConfigs EXCEPT ![t] = Entry(sv)]

\* saveBuildSettings / saveConfiguration up to its await: the saved
\* configurations are read, the entry of the target is replaced and the
\* whole is given to update().  workspaceState.get() returns what was last
\* given to workspaceState.update(); getConfiguration().get() returns the
\* configuration as the extension host knows it, which an update() changes
\* only when it is done.
SaveBuildSettings(m, t, k, o, sv) ==
    LET read == IF HasContext(m) THEN workspaceState.value[StorageKey(m)]
                ELSE workspaceState.stored[StorageKey(m)]
        savedConfigs == SavedConfigs(read, t, sv)
    IN /\ workspaceState' = IF HasContext(m)
                            THEN [workspaceState EXCEPT !.value[StorageKey(m)] = savedConfigs]
                            ELSE workspaceState
       /\ Suspends([NewCall("handleDynamicSelection", m, "update", NoProc, "sent", <<t, k, o>>)
                       EXCEPT !.res = savedConfigs])

\* BuildSystemManager.handleDynamicSelection(target, selectorKey,
\* selectedValue), up to the await of workspaceState.update() in
\* saveBuildSettings.  Without a resolver it shows a warning; for a target
\* whose data the resolver has not extracted the resolver returns at once
\* and BuildSystemManager fires its event.
HandleDynamicSelection(t, k, o) ==
    /\ issued < MaxCalls
    /\ LET m == GetManagerForTarget(managers, t)
       IN IF m = "none"
          THEN /\ Returns
               /\ Shows(Ev("notSupported", m, "handleDynamicSelection", Selection(t, k, o, <<>>)))
               /\ UNCHANGED <<managers, buildData, workspaceState>>
          ELSE IF ~buildData[m][t].has
          THEN /\ Returns
               /\ Shows(Ev("ignored", m, "handleDynamicSelection", Selection(t, k, o, <<t>>)))
               /\ UNCHANGED <<managers, buildData, workspaceState>>
          ELSE /\ buildData' = [buildData EXCEPT
                                   ![m][t].selectedValues = SetValue(@, k, o)]
               /\ SaveBuildSettings(m, t, k, o, SetValue(buildData[m][t].selectedValues, k, o))
               /\ Shows(Ev("selected", m, "handleDynamicSelection", Selection(t, k, o, <<>>)))
               /\ UNCHANGED managers

\* update() settled, the oldest of a store first: the storage, or the
\* configuration, holds what was given to this update(); or the write
\* failed and the catch logs the error.  A resolver
\* then fires onDidChangeConfiguration(targetId), which BuildSystemManager
\* passes on, and BuildSystemManager fires it once more; XcodeManager fires
\* its own event.
SaveSettled(u, ok) ==
    /\ u \in DOMAIN calls
    /\ calls[u].pc = "update"
    /\ \A v \in 1..(u - 1) : ~(calls[v].pc = "update" /\ calls[v].c = calls[u].c)
    /\ LET m == calls[u].c
           key == calls[u].key
           written == calls[u].res
       IN /\ workspaceState' =
                 IF ok THEN [workspaceState EXCEPT
                                !.stored[StorageKey(m)] = written,
                                !.value[StorageKey(m)] =
                                    IF HasContext(m) THEN @ ELSE written]
                 ELSE workspaceState
          /\ calls' = FinishCall(u) /\ UNCHANGED issued
          /\ Shows(Ev(IF ok THEN "saved" ELSE "saveFailed", m, "handleDynamicSelection",
                      Selection(key[1], key[2], key[3],
                                IF HasContext(m) THEN <<key[1], key[1]>> ELSE <<key[1]>>)))
          /\ UNCHANGED <<managers, buildData>>

\* XcodeManager.isXcodeTarget(target), and the configurations and
\* destinations of its data.
IsXcodeTarget(t) == DataKindOf(t) = "sourceKit"

\* loadConfiguration(targetId): what is saved for the target, or the first
\* configuration and the first destination.
LoadConfiguration(savedConfigs, t) ==
    IF savedConfigs[t].has THEN savedConfigs[t].selectedValues
    ELSE <<[key |-> "configuration", option |-> OptionsOf("configuration")[1]],
           [key |-> "destination", option |-> OptionsOf("destination")[1]]>>

\* XcodeManager.extractXcodeData(target).
ExtractXcodeData(t) ==
    /\ IF IsXcodeTarget(t)
       THEN /\ buildData' =
                   [buildData EXCEPT !["xcodeManager"][t] =
                       Entry(LoadConfiguration(workspaceState.stored[StorageKey("xcodeManager")], t))]
            /\ Shows(Ev("extracted", "xcodeManager", "extractXcodeData", <<t>>))
       ELSE /\ UNCHANGED buildData
            /\ Shows(Ev("null", "xcodeManager", "extractXcodeData", <<t>>))
    /\ UNCHANGED <<managers, workspaceState, calls, issued>>

\* XcodeManager.selectConfiguration(targetId) / selectDestination(targetId)
\* from the moment the quick pick returns option o, up to the await of
\* update() in saveConfiguration.
SelectXcode(t, k, o) ==
    /\ issued < MaxCalls
    /\ buildData["xcodeManager"][t].has
    /\ buildData' = [buildData EXCEPT !["xcodeManager"][t].selectedValues = SetValue(@, k, o)]
    /\ SaveBuildSettings("xcodeManager", t, k, o,
                         SetValue(buildData["xcodeManager"][t].selectedValues, k, o))
    /\ Shows(Ev("selected", "xcodeManager", "handleDynamicSelection", Selection(t, k, o, <<>>)))
    /\ UNCHANGED managers

\* A new extension host: a new BuildSystemManager with its own resolvers,
\* over the workspaceState the storage holds; what was suspended is gone.
Restart ==
    /\ managers' = <<"generic">>
    /\ buildData' = [m \in Managers |-> NoConfigs]
    /\ workspaceState' = [value |-> workspaceState.stored, stored |-> workspaceState.stored]
    /\ calls' = <<>> /\ UNCHANGED issued
    /\ Shows(Ev("restarted", "-", "-", ""))

----------------------------------------------------------------------------
\* Positions of suspended calls: a call of connectAll / disconnectAll
\* suspends itself and one call per connection.
MaxPending == MaxCalls * (Len(ClientOrder) + 1)
Calls == 1..MaxPending
Procs == 1..MaxProcs

\* Requests the outer layers make on the clients CS, for the targets TS.
RequestCalls(CS, TS) ==
    \/ \E c \in CS : GetBuildTargets(c)
    \/ \E c \in CS, tgt \in TS : Compile(c, tgt)
    \/ \E c \in CS, tgt \in TS : Test(c, tgt)
    \/ \E c \in CS, tgt \in TS : Run(c, tgt)
    \/ \E c \in CS : Reload(c)
    \/ \E c \in CS, tgt \in TS : Debug(c, tgt)

\* Calls the outer layers issue on the connections CS.
ClientCalls(CS) ==
    \/ \E c \in CS : ConnectToServer(c)
    \/ \E c \in CS : DisconnectFromServer(c)
    \/ RequestCalls(CS, Targets)

\* Cancellation of pending operations of the connections CS.
Cancellations(CS) ==
    \/ \E t \in Calls : t \in DOMAIN calls /\ calls[t].c \in CS /\ Cancel(t)
    \/ \E c \in CS : CancelAllRequests(c)

\* Continuations of suspended requests.
RequestContinuations ==
    \/ \E t \in Calls : BuildTargetsResult(t)
    \/ \E t \in Calls : ExecuteResult(t)
    \/ \E t \in Calls : ReloadResult(t)
    \/ \E t \in Calls, uri \in Addresses : DebugResult(t, uri)
    \/ \E t \in Calls, started \in BOOLEAN : StartVSCodeDebugSession(t, started)

\* Continuations of suspended calls.
Continuations ==
    \/ \E t \in Calls, outcome \in StartOutcomes : StartBspServer(t, outcome)
    \/ \E t \in Calls : InitializeConnection(t)
    \/ \E t \in Calls : Disconnect(t)
    \/ RequestContinuations

\* Calls on the registry as a whole, and their continuation.
RegistryCalls ==
    \/ ConnectAll
    \/ DisconnectAll

RegistryContinuations == \E t \in Calls : AllSettled(t)

\* The server processes and the exit event.
ServerSteps ==
    \/ \E t \in Calls, ok \in BOOLEAN : ServerRespond(t, ok)
    \/ \E p \in Procs : ServerExit(p)
    \/ \E p \in Procs : OnExit(p)

\* Notifications read from a server process.
Notifications ==
    \/ \E p \in Procs, m \in TaskMethods \cup {"build/showMessage", UnknownMethod},
          params \in NotificationParams : OnNotification(p, m, params)
    \/ \E p \in Procs, f \in Files, d \in DiagIds, reset \in BOOLEAN :
          OnPublishDiagnostics(p, f, <<d>>, reset)

\* Every connection of the registry, with the calls made on one connection
\* at a time, cancellation and notifications.
Next ==
    \/ ClientCalls(Clients)
    \/ \E c \in Clients : RemoveConnection(c)
    \/ Cancellations(Clients)
    \/ Continuations
    \/ ServerSteps
    \/ Notifications
Spec == Init /\ [][Next]_vars

\* The sessions alone: calls, continuations and the server processes.
NextSession == ClientCalls(Clients) \/ Continuations \/ ServerSteps
SessionSpec == Init /\ [][NextSession]_vars

\* One session.
NextOne == ClientCalls({"A"}) \/ Continuations \/ ServerSteps
OneSpec == Init /\ [][NextOne]_vars

\* One session with the cancellation of its operations.
NextOps == NextOne \/ Cancellations({"A"})
OpsSpec == Init /\ [][NextOps]_vars

\* The sessions with the removal of connections from the registry.
NextRemoval == NextSession \/ \E c \in Clients : RemoveConnection(c)
RemovalSpec == Init /\ [][NextRemoval]_vars

\* The registry connecting and disconnecting all its connections together.
AllContinuations ==
    \/ \E t \in Calls, outcome \in StartOutcomes : StartBspServer(t, outcome)
    \/ \E t \in Calls : InitializeConnection(t)
    \/ \E t \in Calls : Disconnect(t)
    \/ RegistryContinuations

NextAll == RegistryCalls \/ AllContinuations \/ ServerSteps
AllSpec == Init /\ [][NextAll]_vars

\* The same under the scheduling the event loop guarantees: continuations
\* and exit events that are due are run.  Nothing obliges a server to answer.
FairAllSpec ==
    /\ Init /\ [][NextAll]_vars
    /\ WF_vars(AllContinuations)
    /\ WF_vars(\E p \in Procs : OnExit(p))

\* One session under the scheduling the event loop guarantees: a
\* continuation whose awaited promise settled is run, and an exit event that
\* is due is delivered.  Nothing obliges the server to answer.
FairSpec ==
    /\ Init /\ [][NextOne]_vars
    /\ WF_vars(Continuations)
    /\ WF_vars(\E p \in Procs : OnExit(p))

\* One session whose handshake is done, with compile calls on its targets
\* and their cancellation, up to the loss of its server.  ReadyInit is the state connectToServer("A")
\* leaves when the server answered build/initialize; issued counts the calls
\* made from there.
WorkspaceTargets == {"app", "lib"}

\* BuildTargetCapabilities of the targets a server reports: the operations
\* whose flag (canCompile, canTest, canRun, canDebug) is true.
Capabilities(tgt) ==
    CASE tgt = "app" -> {"compile", "run", "debug"}
      [] tgt = "lib" -> {"compile"}
      [] tgt = "tests" -> {"compile", "test"}
      [] OTHER -> {}

ReadyProc(observed) ==
    [owner |-> "A", status |-> "running", killed |-> FALSE, disposed |-> FALSE,
     sent |-> <<"build/initialize", "build/initialized">>, params |-> << <<>>, <<>> >>,
     observed |-> observed, published |-> <<>>]

ReadySession(pr) ==
    /\ isConnected = [c \in Clients |-> c = "A"]
    /\ connection = [c \in Clients |-> IF c = "A" THEN 1 ELSE NoProc]
    /\ serverProcess = [c \in Clients |-> IF c = "A" THEN 1 ELSE NoProc]
    /\ buildTargets = [c \in Clients |-> <<>>]
    /\ diagnostics = [c \in Clients |-> EmptyDiagnostics]
    /\ requestCounter = [c \in Clients |-> 0]
    /\ activeRequests = [c \in Clients |-> {}]
    /\ connections = [c \in Clients |->
                         [connected |-> c = "A", lastConnected |-> c = "A", error |-> "",
                          registered |-> TRUE]]
    /\ proc = <<pr>>
    /\ calls = <<>>
    /\ issued = 0
    /\ last = Ev("connected", "A", "connect", "")
    /\ fired = TRUE
    /\ ResolverInit([k \in StorageKeys |-> NoConfigs])
    /\ now = 0
    /\ connectionIds = <<>>

ReadyInit == ReadySession(ReadyProc(FALSE))

NextRequest ==
    \/ \E tgt \in WorkspaceTargets : Compile("A", tgt)
    \/ Cancellations({"A"})
    \/ \E t \in Calls : ExecuteResult(t)
    \/ ServerSteps
RequestSpec == ReadyInit /\ [][NextRequest]_vars

\* One BuildSystemManager with its GenericTargetManager: extraction of the
\* targets that have selectors, selections of advertised options, the
\* store's answers and restarts of the extension host.
ResolverTargets == {"app", "lib"}
Selections ==
    \E t \in ResolverTargets, k \in SelectorKeys :
        \E i \in DOMAIN OptionsOf(k) : HandleDynamicSelection(t, k, OptionsOf(k)[i])
NextResolver ==
    \/ \E t \in ResolverTargets : ExtractCustomData(t)
    \/ Selections
    \/ \E u \in Calls, ok \in BOOLEAN : SaveSettled(u, ok)
    \/ Restart
ResolverSpec == Init /\ [][NextResolver]_vars

\* The same resolver in a workspace whose storage holds what an earlier
\* session saved for "lib", when the server advertised a destination
\* selector for it as well; the selections are the ones the quick pick of
\* showDynamicSelector offers.
EarlierEntries ==
    {NoEntry,
     Entry(<<[key |-> "configuration", option |-> "Debug"]>>),
     Entry(<<[key |-> "destination", option |-> "mac"]>>)}
RestoreInit ==
    \E e \in EarlierEntries :
        InitOver([k \in StorageKeys |->
                     IF k = StorageKey("generic") THEN [NoConfigs EXCEPT !["lib"] = e]
                     ELSE NoConfigs])
AdvertisedSelections ==
    \E t \in ResolverTargets :
        \E j \in DOMAIN SelectorsOf(t) :
            \E i \in DOMAIN OptionsOf(SelectorsOf(t)[j]) :
                HandleDynamicSelection(t, SelectorsOf(t)[j], OptionsOf(SelectorsOf(t)[j])[i])
NextRestore ==
    \/ \E t \in ResolverTargets : ExtractCustomData(t)
    \/ AdvertisedSelections
    \/ \E u \in Calls, ok \in BOOLEAN : SaveSettled(u, ok)
    \/ Restart
RestoreSpec == RestoreInit /\ [][NextRestore]_vars

\* A Ready session with compile calls and the notifications of its server.
NextNotify ==
    \/ \E tgt \in WorkspaceTargets : Compile("A", tgt)
    \/ \E t \in Calls : ExecuteResult(t)
    \/ \E m \in TaskMethods \cup {"build/showMessage", UnknownMethod},
          params \in NotificationParams : OnNotification(1, m, params)
    \/ ServerSteps
NotifySpec == ReadyInit /\ [][NextNotify]_vars

\* A Ready session with debug, compile and getBuildTargets calls.
NextDebug ==
    \/ \E tgt \in WorkspaceTargets : Debug("A", tgt)
    \/ \E tgt \in WorkspaceTargets : Compile("A", tgt)
    \/ GetBuildTargets("A")
    \/ \E t \in Calls : BuildTargetsResult(t)
    \/ \E t \in Calls, uri \in Addresses : DebugResult(t, uri)
    \/ \E t \in Calls, started \in BOOLEAN : StartVSCodeDebugSession(t, started)
    \/ \E t \in Calls : ExecuteResult(t)
    \/ ServerSteps
DebugSpec == ReadyInit /\ [][NextDebug]_vars

\* The registry of BuildSystemManager under registrations and removals,
\* with extractions and selections for targets that one, two or none of
\* the resolvers accept, over a store that writes what it is given.
NextRegistry ==
    \/ \E m \in Resolvers : Register(m)
    \/ \E m \in Resolvers : Unregister(m)
    \/ \E t \in SelectorTargets : ExtractCustomData(t)
    \/ \E t \in SelectorTargets :
          HandleDynamicSelection(t, "configuration", OptionsOf("configuration")[2])
    \/ \E u \in Calls : SaveSettled(u, TRUE)
RegistrySpec == Init /\ [][NextRegistry]_vars

\* The XcodeManager: extraction of the Xcode targets, selections of a
\* configuration or a destination, the answers of the configuration
\* service and restarts of the extension host.
XcodeTargets == {"lib", "raw"}
NextXcode ==
    \/ \E t \in XcodeTargets : ExtractXcodeData(t)
    \/ \E t \in XcodeTargets, k \in SelectorKeys :
          \E i \in DOMAIN OptionsOf(k) : SelectXcode(t, k, OptionsOf(k)[i])
    \/ \E u \in Calls, ok \in BOOLEAN : SaveSettled(u, ok)
    \/ Restart
XcodeSpec == Init /\ [][NextXcode]_vars

\* A Ready session and the notifications of its server, which is observed.
DiagLists == {<<>>, <<"d1">>, <<"d2", "d1">>}
DiagInit == ReadySession(ReadyProc(TRUE))
NextDiag ==
    \/ \E f \in Files, ds \in DiagLists, reset \in BOOLEAN : OnPublishDiagnostics(1, f, ds, reset)
    \/ ServerExit(1)
    \/ OnExit(1)
DiagSpec == DiagInit /\ [][NextDiag]_vars

\* addConnection(config): the id is `${config.name}_${Date.now()}`, and
\* `this.connections.set(connectionId, connection)` puts the new
\* BspConnection under it, whatever the map held there.
MaxClock == 2
ConfigNames == {"sbt", "bazel"}
ConfigPaths == {"p1", "p2"}

ConnectionId(name, t) == <<name, t>>

MapSet(map, id, v) == (id :> v) @@ map

AddConnection(name, path) ==
    /\ connectionIds' = MapSet(connectionIds, ConnectionId(name, now), path)
    /\ last' = Ev("connectionAdded", "-", "addConnection", ConnectionId(name, now))
    /\ fired' = TRUE
    /\ UNCHANGED <<clientVars, connections, proc, calls, issued, resolverVars, now>>

\* The clock moves on by a millisecond.
Tick ==
    /\ now < MaxClock
    /\ now' = now + 1
    /\ last' = Quiet
    /\ fired' = FALSE
    /\ UNCHANGED <<clientVars, connections, proc, calls, issued, resolverVars, connectionIds>>

\* The registry under addConnection calls as the clock advances.
NextAdd ==
    \/ \E name \in ConfigNames, path \in ConfigPaths : AddConnection(name, path)
    \/ Tick
AddSpec == Init /\ [][NextAdd]_vars

----------------------------------------------------------------------------
\* Properties

\* The step issues a call; the call suspended.
CallIssued == issued' = issued + 1
NewCallIs(op, c) ==
    /\ Len(calls') = Len(calls) + 1
    /\ calls'[Len(calls')].op = op
    /\ calls'[Len(calls')].c = c

\* The step writes message m to process p / finishes the suspended call t
\* (the other suspended calls stay, whatever becomes of their requests).
Written(p, m) == proc'[p].sent = Append(proc[p].sent, m)
Finished(t) ==
    LET Who(cs) == [u \in DOMAIN cs |-> [cs[u] EXCEPT !.st = "-", !.res = NoResult]]
    IN Who(calls') = Who(Remove(calls, t))
Range(seq) == {seq[i] : i \in DOMAIN seq}

RequestIssued(c, op) ==
    CallIssued /\ (last' = Ev("notConnected", c, op, "") \/ NewCallIs(op, c))

\* The session of c is Ready: connected, and no disconnect() under way.
Ready(c) ==
    /\ isConnected[c]
    /\ ~\E t \in DOMAIN calls : calls[t].op = "disconnect" /\ calls[t].c = c

\* C1: a getBuildTargets, compile, test, run, reload or debug call issued
\* while the session is not Ready is refused with the not-connected error
\* and nothing is written to any server.
C1_NotReadyRefused ==
    [][\A c \in Clients, op \in RequestOps :
          (RequestIssued(c, op) /\ ~Ready(c))
              => (last' = Ev("notConnected", c, op, "") /\ proc' = proc)]_vars

\* The session of c is between the spawn of its server and Ready.
Handshaking(c) ==
    /\ ~isConnected[c]
    /\ \E t \in DOMAIN calls : calls[t].c = c /\ calls[t].pc = "initialize"

\* C2: no notification is dispatched to a sink while the session is still
\* in its handshake.
C2_NoDispatchBeforeReady ==
    [][last'.ev = "dispatch" => ~Handshaking(last'.c)]_vars

\* C3: build/initialize is the first message written to a server;
\* build/initialized is written only by a connect() whose initialize
\* response was received; isConnected becomes true only in a step that wrote
\* build/initialized; a connect() whose initialize failed writes no
\* build/initialized and does not make the session Ready.
C3_HandshakeOrder ==
    [][/\ \A p \in DOMAIN proc' : proc'[p].sent[1] = "build/initialize"
       /\ \A p \in DOMAIN proc :
             Written(p, "build/initialized")
                 => \E t \in DOMAIN calls :
                       /\ calls[t].op = "connect" /\ calls[t].pc = "initialize"
                       /\ calls[t].st = "ok"
                       /\ "build/initialize" \in Range(proc[calls[t].p].sent)
                       /\ Finished(t)
       /\ \A c \in Clients :
             (isConnected'[c] /\ ~isConnected[c])
                 => \E p \in DOMAIN proc :
                       proc[p].owner = c /\ Written(p, "build/initialized")
       /\ \A t \in DOMAIN calls :
             (calls[t].pc = "initialize" /\ calls[t].st \in {"err", "rejected"} /\ Finished(t))
                 => (proc' = proc /\ isConnected' = isConnected)]_vars

C3_Witness ==
    /\ last.ev = "connected"
    /\ \E p \in DOMAIN proc : proc[p].sent = <<"build/initialize", "build/initialized">>

ConnectIssued(c) ==
    CallIssued /\ (last' = Ev("connectNoop", c, "connect", "") \/ NewCallIs("connect", c))

\* C4: connect() on a session that is Ready returns at once: no process is
\* spawned, nothing is written, no call is left suspended and the session's
\* state is unchanged.
C4_ConnectIdempotent ==
    [][\A c \in Clients :
          (ConnectIssued(c) /\ isConnected[c])
              => /\ last' = Ev("connectNoop", c, "connect", "")
                 /\ UNCHANGED <<clientVars, proc, calls>>]_vars

C4_Witness ==
    /\ last.ev = "connectNoop"
    /\ isConnected[last.c]

ConnectPending == \E t \in DOMAIN calls : calls[t].op = "connect"

\* C5: every connect() call eventually completes.
C5_ConnectCompletes == ConnectPending ~> ~ConnectPending

\* A request is pending on a server process that exited on its own.
PendingOnExited ==
    \E t \in DOMAIN calls :
        /\ calls[t].st = "sent"
        /\ proc[calls[t].p].status \in {"exited", "reaped"}
        /\ ~proc[calls[t].p].killed

\* C6: a request pending when the server process exits unexpectedly
\* eventually fails; it does not stay pending.
C6_PendingFailOnExit == PendingOnExited ~> ~PendingOnExited

\* C7: when the server process of a connected registry connection exits
\* unexpectedly, the connection is not connected afterwards.
C7_ExitDisconnects ==
    [][(/\ last'.ev = "serverExited" /\ last'.info = "unexpected"
        /\ connections[last'.c].connected)
           => ~connections'[last'.c].connected]_vars

\* C8: build/exit is written only by a disconnect() that wrote build/shutdown
\* and whose shutdown response was received, and the server process is
\* killed only in a step that wrote build/exit.
C8_ShutdownOrder ==
    [][/\ \A q \in DOMAIN proc :
             Written(q, "build/exit")
                 => \E t \in DOMAIN calls :
                       /\ calls[t].op = "disconnect" /\ calls[t].pc = "shutdown"
                       /\ calls[t].st = "ok"
                       /\ "build/shutdown" \in Range(proc[calls[t].p].sent)
                       /\ Finished(t)
       /\ \A p \in DOMAIN proc :
             (proc'[p].killed /\ ~proc[p].killed)
                 => \E q \in DOMAIN proc : Written(q, "build/exit")]_vars

C8_Witness ==
    /\ last.ev = "disconnected"
    /\ \E p \in DOMAIN proc :
          /\ proc[p].sent = <<"build/initialize", "build/initialized",
                              "build/shutdown", "build/exit">>
          /\ proc[p].killed

\* C9: when a disconnect() that sent build/shutdown returns, the session is
\* not Ready and its server process is stopped.
C9_DisconnectStops ==
    [][last'.ev \in {"disconnected", "disconnectFailed"}
          => /\ ~isConnected'[last'.c]
             /\ serverProcess[last'.c] # NoProc
                   => proc'[serverProcess[last'.c]].status # "running"]_vars

\* C10: when a Ready session is closed, by disconnect() or by the exit of
\* its server process, its diagnostics are empty and its cached targets are
\* cleared, and the caches of the other connections are unchanged.
C10_ClosedClearsCaches ==
    [][(last'.ev \in {"disconnected", "serverExited"} /\ isConnected[last'.c])
          => /\ diagnostics'[last'.c] = EmptyDiagnostics
             /\ buildTargets'[last'.c] = <<>>
             /\ \A d \in Clients \ {last'.c} :
                   /\ diagnostics'[d] = diagnostics[d]
                   /\ buildTargets'[d] = buildTargets[d]]_vars

\* C11: a connectToServer(id) that fails raises the error to its caller and
\* leaves the Connection not connected with the failure message as its error
\* text; a connectToServer(id) that succeeds leaves it connected, with
\* lastConnected recorded and the error text cleared.
C11_ConnectErrorRecorded ==
    [][/\ last'.ev = "connectFailed"
            => /\ last'.info \in {"noConfig", "spawnFailed", "initFailed"}
               /\ ~connections'[last'.c].connected
               /\ connections'[last'.c].error = last'.info
       /\ last'.ev = "connected"
            => /\ connections'[last'.c].connected
               /\ connections'[last'.c].lastConnected
               /\ connections'[last'.c].error = ""]_vars

C11_Witness ==
    /\ last.ev = "connectFailed"
    /\ ~connections[last.c].connected
    /\ connections[last.c].lastConnected
    /\ connections[last.c].error = "spawnFailed"

\* The step is a call of executeWithProgress on c (compile, test, run or
\* reload): it takes a number from the counter.
OperationIssued(c) == CallIssued /\ requestCounter'[c] = requestCounter[c] + 1

\* C12: each compile call on a session whose server is there writes one
\* buildTarget/compile request of its own, whatever other calls are pending;
\* a result is delivered to exactly one call, the one whose request the
\* response answers, with the outcome that response carries, and the other
\* pending calls are left as they are; a call whose response has arrived is
\* free to complete.
C12_OwnResponse ==
    [][/\ (OperationIssued("A") /\ Running(connection["A"]))
            => \E tgt \in WorkspaceTargets :
                  /\ proc' = WriteWith(proc, connection["A"], "buildTarget/compile", <<tgt>>)
                  /\ calls' = Append(calls, NewCall("compile", "A", "await", connection["A"], "sent",
                                                    <<"compile", requestCounter["A"], tgt>>))
       /\ last'.ev = "result"
            => \E t \in DOMAIN calls :
                  /\ calls[t].st = "ok"
                  /\ calls' = Remove(calls, t)
                  /\ last'.info = "success" <=> calls[t].res = StatusOk
                  /\ proc' = proc
       /\ \A t \in DOMAIN calls : calls[t].st = "ok" => ENABLED ExecuteResult(t)]_vars

\* Two compile calls on distinct targets were pending together; the server
\* answered the second first, and its result was delivered while the first,
\* answered with another status, still waits.
C12_Witness ==
    /\ last = Ev("result", "A", "compile", "failure")
    /\ Len(calls) = 1
    /\ calls[1].key = <<"compile", 0, "app">>
    /\ calls[1].st = "ok" /\ calls[1].res = StatusOk
    /\ proc[1].sent = <<"build/initialize", "build/initialized",
                        "buildTarget/compile", "buildTarget/compile">>
    /\ proc[1].params = << <<>>, <<>>, <<"app">>, <<"lib">> >>

\* The keys of the operations of c that are pending.
PendingKeys(c) == {calls[t].key : t \in {u \in DOMAIN calls : calls[u].c = c /\ calls[u].key # <<>>}}

\* C13: the entry of a compile, test, run or reload call is in the map from
\* the step that issues the call; it leaves the map only when the call
\* completes or fails, or by a cancellation; it is absent once the call is
\* over; and the map holds nothing but entries of pending operations, so it
\* is empty when none is pending.
C13_EntryLifecycle ==
    [][\A c \in Clients :
          /\ \A t \in DOMAIN calls' :
                (t \notin DOMAIN calls /\ calls'[t].c = c /\ calls'[t].key # <<>>)
                    => (calls'[t].key \in activeRequests'[c] /\ calls'[t].key \notin activeRequests[c])
          /\ \A k \in activeRequests[c] \ activeRequests'[c] :
                \/ last'.ev \in {"cancelled", "cancelAll"} /\ last'.c = c
                \/ \E t \in DOMAIN calls : calls[t].c = c /\ calls[t].key = k /\ Finished(t)
          /\ \A t \in DOMAIN calls :
                (calls[t].c = c /\ Finished(t)) => calls[t].key \notin activeRequests'[c]
          /\ activeRequests'[c] \subseteq PendingKeys(c)']_vars

C13_Witness ==
    /\ last = Ev("result", "A", "test", "success")
    /\ requestCounter["A"] = 1
    /\ activeRequests["A"] = {}
    /\ calls = <<>>

\* C14: an operation is sent whether or not another of the same kind on the
\* same target is pending; it is tracked under a key with the next number of
\* the counter, so the keys of pending operations are pairwise distinct; and
\* the completion or the cancellation of one operation leaves the entries of
\* the others in the map.
C14_DistinctKeys ==
    [][/\ (OperationIssued("A") /\ Running(connection["A"]))
            => /\ Written(connection["A"], "buildTarget/compile")
               /\ Len(calls') = Len(calls) + 1
               /\ calls'[Len(calls')].key[2] = requestCounter["A"]
               /\ \A t \in DOMAIN calls : calls[t].key # calls'[Len(calls')].key
       /\ \A t, u \in DOMAIN calls : t # u => calls[t].key # calls[u].key
       /\ \A t \in DOMAIN calls :
             (Finished(t) \/ (last'.ev = "cancelled" /\ calls[t].key \notin activeRequests'["A"]
                                                    /\ calls[t].key \in activeRequests["A"]))
                 => \A u \in DOMAIN calls \ {t} :
                       calls[u].key \in activeRequests["A"]
                           => calls[u].key \in activeRequests'["A"]]_vars

\* Two compile calls on the same target were pending together; the first
\* completed and the entry of the second is still there.
C14_Witness ==
    /\ last.ev = "result"
    /\ Len(calls) = 1
    /\ calls[1].key = <<"compile", 1, "app">>
    /\ activeRequests["A"] = {<<"compile", 1, "app">>}
    /\ proc[1].params = << <<>>, <<>>, <<"app">>, <<"app">> >>

\* C15: the cancellation of a compile, test or run call of a connected
\* session through its token ends the call in that step (its caller is no longer suspended) and writes
\* nothing to the server.
C15_CancelReleasesCaller ==
    [][(last'.ev = "cancelled" /\ last'.op \in ExecOps /\ isConnected[last'.c])
          => /\ proc' = proc
             /\ \E t \in DOMAIN calls :
                   /\ calls[t].c = last'.c /\ calls[t].op = last'.op
                   /\ calls[t].key \in activeRequests[last'.c] \ activeRequests'[last'.c]
                   /\ Finished(t)]_vars

\* C16: compile(target) on a session whose server is there writes one
\* buildTarget/compile request whose targets are exactly the target of the
\* call; when its response arrives the call returns a result and raises
\* nothing, a success for status Ok and a failure for Error and Cancelled.
C16_CompileResult ==
    [][/\ (OperationIssued("A") /\ Running(connection["A"]))
            => /\ Len(calls') = Len(calls) + 1
               /\ calls'[Len(calls')].key[3] \in WorkspaceTargets
               /\ proc' = [proc EXCEPT
                     ![connection["A"]].sent = Append(@, "buildTarget/compile"),
                     ![connection["A"]].params = Append(@, <<calls'[Len(calls')].key[3]>>)]
       /\ \A t \in DOMAIN calls :
             (calls[t].st = "ok" /\ Finished(t))
                 => /\ calls[t].res = StatusOk
                        => last' = Ev("result", "A", "compile", "success")
                    /\ calls[t].res \in {StatusError, StatusCancelled}
                        => last' = Ev("result", "A", "compile", "failure")
                    /\ calls[t].res \in StatusCodes]_vars

C16_Witness ==
    /\ last = Ev("result", "A", "compile", "failure")
    /\ calls = <<>>
    /\ proc[1].sent = <<"build/initialize", "build/initialized", "buildTarget/compile">>
    /\ proc[1].params = << <<>>, <<>>, <<"lib">> >>

\* C17: compile, test and run raise nothing to their caller: neither the
\* not-connected error nor the failure of their request.
C17_NoFaultRaised ==
    [][last'.op \in ExecOps => last'.ev \notin {"notConnected", "requestFailed"}]_vars

\* A connectAll() or disconnectAll() call has not returned.
AllPending == \E t \in DOMAIN calls : calls[t].pc = "allSettled"

\* C18: connectAll() and disconnectAll() start one connect / disconnect per
\* registered connection, raise nothing, and always complete.
C18_AllComplete ==
    /\ [][\A t \in DOMAIN calls' :
             (t \notin DOMAIN calls /\ calls'[t].pc = "allSettled")
                 => \A c \in Clients :
                       Cardinality({u \in DOMAIN calls' \ DOMAIN calls : calls'[u].c = c}) <= 1]_vars
    /\ [][last'.op \in {"connectAll", "disconnectAll"} => last'.ev = "allSettled"]_vars
    /\ AllPending ~> ~AllPending

\* What belongs to connection c: its registry entry, its session, its
\* pending calls and its server processes.
CallsOf(cs, c) == SelectSeq(cs, LAMBDA x : x.c = c)
ProcsOf(pr, c) == [p \in {q \in DOMAIN pr : pr[q].owner = c} |-> pr[p]]
Untouched(c) ==
    /\ connections'[c] = connections[c]
    /\ isConnected'[c] = isConnected[c]
    /\ connection'[c] = connection[c]
    /\ serverProcess'[c] = serverProcess[c]
    /\ buildTargets'[c] = buildTargets[c]
    /\ diagnostics'[c] = diagnostics[c]
    /\ activeRequests'[c] = activeRequests[c]
    /\ requestCounter'[c] = requestCounter[c]
    /\ CallsOf(calls', c) = CallsOf(calls, c)
    /\ ProcsOf(proc', c) = ProcsOf(proc, c)

\* The step is a connect failure, a disconnect (its start or its end), a
\* removal or a process exit of connection c.
ClosingStep(c) ==
    \/ last'.c = c /\ last'.ev \in {"connectFailed", "notFound", "disconnected", "disconnectFailed",
                                     "disconnectNoop", "serverExited"}
    \/ NewCallIs("disconnect", c)
    \/ connections[c].registered /\ ~connections'[c].registered

C20_ConnectedClientsReady ==
    GetConnectedClients = {c \in Clients : Registered(c) /\ isConnected[c]}

\* The status of connection c changes in the step: its registry entry is
\* marked connected or not connected, its error text changes, or its
\* session leaves Ready.
StatusChanged(c) ==
    \/ connections'[c].connected # connections[c].connected
    \/ connections'[c].error # connections[c].error
    \/ isConnected[c] /\ ~isConnected'[c]

\* C21: every step in which the status of a connection changes (to
\* connected, to error, to disconnected by disconnectFromServer, to
\* disconnected by the exit of the server process) fires the registry's
\* connections-changed event.
C21_StatusChangeFires ==
    [][\A c \in Clients : StatusChanged(c) => fired']_vars

\* The notifications of history h that are for file f, and the place in
\* them of the most recent one with reset = true (the first one if none).
ForFile(h, f) == SelectSeq(h, LAMBDA n : n.f = f)
ResetAt(s) ==
    LET R == {i \in DOMAIN s : s[i].reset}
    IN IF R = {} THEN 1 ELSE CHOOSE i \in R : \A j \in R : j <= i
RECURSIVE Concat(_, _)
Concat(s, i) == IF i > Len(s) THEN <<>> ELSE s[i].ds \o Concat(s, i + 1)

\* C22: the diagnostics kept for a file are the concatenation, in the order
\* of arrival, of the diagnostics of the notifications for that file from
\* the most recent one with reset = true onward (from the first if none);
\* those of another file play no part.
C22_DiagnosticsSinceReset ==
    \A p \in DOMAIN proc :
        proc[p].observed
            => \A f \in Files :
                   LET s == ForFile(proc[p].published, f)
                   IN diagnostics[proc[p].owner][f] = Concat(s, ResetAt(s))

\* Three notifications for f (append, reset, append of something) and one for g.
C22_Witness ==
    LET h == proc[1].published
        s == ForFile(h, "f")
    IN /\ Len(s) = 3 /\ ~s[1].reset /\ s[1].ds # <<>> /\ s[2].reset /\ s[2].ds # <<>>
       /\ ~s[3].reset /\ s[3].ds # <<>>
       /\ Len(ForFile(h, "g")) = 1 /\ ForFile(h, "g")[1].ds # <<>>
       /\ h[2].f = "g"
       /\ diagnostics["A"]["f"] = s[2].ds \o s[3].ds
       /\ diagnostics["A"]["g"] # <<>>

\* The arguments of the selected values sv of target t, selector by
\* selector in the order the target declares them.
InDeclaredOrder(sv, t) ==
    LET RECURSIVE Walk(_)
        Walk(i) ==
            IF i > Len(SelectorsOf(t)) THEN <<>>
            ELSE LET I == {j \in DOMAIN sv : sv[j].key = SelectorsOf(t)[i]}
                 IN (IF I = {} THEN <<>> ELSE Arguments(sv[CHOOSE j \in I : TRUE].option))
                        \o Walk(i + 1)
    IN Walk(1)
Declared(sv, t) ==
    \A i \in DOMAIN sv : \E j \in DOMAIN SelectorsOf(t) : SelectorsOf(t)[j] = sv[i].key

\* The resolver of target t holds its data.
Extracted(t) ==
    LET m == GetManagerForTarget(managers, t)
    IN m # "none" /\ buildData[m][t].has
Selected(t) == buildData[GetManagerForTarget(managers, t)][t].selectedValues

\* C23: the argument getters return the arguments of the selected options
\* in the order in which the target declares their selectors, whatever the
\* order in which the selections were made.
C23_DeclarationOrder ==
    \A t \in ResolverTargets :
        (Extracted(t) /\ Declared(Selected(t), t))
            => GetCompileArguments(t) = InDeclaredOrder(Selected(t), t)

\* The first advertised option of every selector of target t.
FirstOptions(t) ==
    [i \in DOMAIN SelectorsOf(t) |->
        [key |-> SelectorsOf(t)[i], option |-> OptionsOf(SelectorsOf(t)[i])[1]]]

\* C24: extractCustomData of a target for which nothing is saved leaves the
\* first advertised option of every selector selected, and the argument
\* getters then return the arguments of those first options.
C24_DefaultsToFirst ==
    [][\A t \in ResolverTargets :
          (/\ last'.ev = "extracted" /\ last'.info = <<t>>
           /\ ~workspaceState.value[StorageKey(last'.c)][t].has)
              => /\ buildData'[last'.c][t].selectedValues = FirstOptions(t)
                 /\ BuildArguments(buildData'[last'.c][t].selectedValues, t)
                        = InDeclaredOrder(FirstOptions(t), t)]_vars

\* List a holds list b as a run of consecutive elements.
Contains(a, b) ==
    \E i \in 0..(Len(a) - Len(b)) : SubSeq(a, i + 1, i + Len(b)) = b

\* What getCompileArguments(t) returns in a new extension host, started on
\* what the storage holds, once extractCustomData(t) has run there.
FreshArguments(t) ==
    LET m == GetManagerForTarget(<<"generic">>, t)
    IN IF m = "none" THEN <<>>
       ELSE BuildArguments(LoadBuildSettings(workspaceState.stored[StorageKey(m)], t), t)

\* The step is a call of handleDynamicSelection(t, _, o) / the completion
\* of one.
SelectionCalled(t, o) ==
    /\ last'.op = "handleDynamicSelection" /\ issued' = issued + 1
    /\ last'.info.target = t /\ last'.info.option = o
SelectionCompleted(t) ==
    /\ last'.op = "handleDynamicSelection"
    /\ last'.ev \in {"saved", "saveFailed", "ignored", "notSupported"}
    /\ last'.info.target = t

\* No update() of a store is pending.
NoSavePending == \A u \in DOMAIN calls : calls[u].pc # "update"

HasValue(sv, k, o) == \E i \in DOMAIN sv : sv[i].key = k /\ sv[i].option = o

\* The step fires configuration-changed events in a handleDynamicSelection
\* for target t.
SelectionFired(t) ==
    /\ last'.op = "handleDynamicSelection"
    /\ last'.info.target = t /\ last'.info.events # <<>>

C27_LatestPersisted ==
    [][\A t \in SelectorTargets :
          (SelectionCompleted(t) /\ last'.ev = "saved")
              => /\ \A t2 \in SelectorTargets \ {t} :
                        workspaceState.stored[StorageKey(last'.c)][t2].has
                            => workspaceState'.stored[StorageKey(last'.c)][t2].has
                 /\ NoSavePending'
                        => workspaceState'.stored[StorageKey(last'.c)][t].selectedValues
                               = buildData'[last'.c][t].selectedValues]_vars

\* The resolver registered earliest among those of ms that accept target t.
EarliestAccepting(ms, t) ==
    IF \A i \in DOMAIN ms : ~CanHandle(ms[i], t) THEN "none"
    ELSE CHOOSE m \in Resolvers :
             \E i \in DOMAIN ms : /\ ms[i] = m /\ CanHandle(m, t)
                                  /\ \A j \in 1..(i - 1) : ~CanHandle(ms[j], t)

\* The step is a call of extractCustomData(t) / handleDynamicSelection(t).
ExtractionCalled(t) == last'.op = "extractCustomData" /\ last'.info = <<t>>
SelectionStarted(t) ==
    /\ last'.op = "handleDynamicSelection" /\ issued' = issued + 1
    /\ last'.info.target = t

\* C28: the registry resolves a target to the resolver registered earliest
\* among the registered ones that accept it, or to none; the argument
\* getters return the arguments of that resolver, and extractCustomData and
\* handleDynamicSelection act on that resolver.
C28_FirstMatch ==
    [][\A t \in SelectorTargets :
          LET m == EarliestAccepting(managers, t)
          IN /\ GetManagerForTarget(managers, t) = m
             /\ GetCompileArguments(t) = IF m = "none" THEN <<>> ELSE GetArguments(m, t)
             /\ ExtractionCalled(t)
                    => /\ last'.c = m
                       /\ last'.ev = "extracted" => buildData'[m][t].has
                       /\ \A m2 \in Resolvers \ {m} : buildData'[m2] = buildData[m2]
             /\ SelectionStarted(t)
                    => /\ last'.c = m
                       /\ last'.ev = "selected"
                              => HasValue(buildData'[m][t].selectedValues,
                                          last'.info.key, last'.info.option)
                       /\ \A m2 \in Resolvers \ {m} : buildData'[m2] = buildData[m2]]_vars

\* With the resolver Xcode registered before Generic, a selection for lib,
\* which both accept, is recorded by Xcode.
C28_Witness ==
    /\ managers = <<"xcode", "generic">>
    /\ last.ev = "selected" /\ last.c = "xcode" /\ last.info.target = "lib"
    /\ buildData["xcode"]["lib"].has /\ ~buildData["generic"]["lib"].has

\* The step is the return of debug() with the result whose address is uri /
\* and handleDebugResult went on to attach with descriptor a.
DebugReturned(uri) ==
    /\ last'.op = "debug"
    /\ last'.ev \in {"debugReturned", "debugStarted", "debugStartFailed"}
    /\ last'.info = uri
Attaching(a) ==
    \E t \in DOMAIN calls :
        /\ calls[t].pc = "await" /\ calls'[t].pc = "startDebugging"
        /\ calls'[t].res = a

\* C29: for tcp://h:8 and tcp://h:88 debug attaches to host h and port 8 /
\* 88, for unix:///s to the socket /s; for an address of another scheme
\* or a tcp address without a host and a port, debug() does not return
\* the result.  (Nothing is asked of a result without address, nor of
\* tcp://h:8h, where a host and a port are followed by something else.)
C29_AddressParsed ==
    [][\A uri \in Addresses \ {NoUri, "tcp://h:8h"} :
          (last'.op = "debug" /\ last'.info = uri)
              => CASE uri = "tcp://h:8"
                          -> /\ DebugReturned(uri)
                             /\ Attaching([kind |-> "tcp", host |-> <<"h">>, port |-> 8,
                                           socket |-> <<>>])
                   [] uri = "tcp://h:88"
                          -> /\ DebugReturned(uri)
                             /\ Attaching([kind |-> "tcp", host |-> <<"h">>, port |-> 88,
                                           socket |-> <<>>])
                   [] uri = "unix:///s"
                          -> /\ DebugReturned(uri)
                             /\ Attaching([kind |-> "unix", host |-> <<>>, port |-> 0,
                                           socket |-> <<"/", "s">>])
                   [] OTHER -> ~DebugReturned(uri)]_vars

\* The step is the end of a debug() call whose address gave nothing to
\* attach to, or whose startVSCodeDebugSession failed.
DebugStartFailed ==
    /\ last'.op = "debug"
    /\ \/ last'.ev = "debugStartFailed"
       \/ last'.ev = "debugStarted" /\ last'.info \in Addresses

\* C30: such a step leaves the session as it was: connected or not, with
\* its connection and server process, its pending operations, its cached
\* targets and diagnostics; only the debug call is gone, and a request is
\* refused after it only if it was before.
C30_SessionUntouched ==
    [][DebugStartFailed
          => /\ UNCHANGED <<isConnected, connection, serverProcess, buildTargets, diagnostics,
                           requestCounter, activeRequests, connections, proc>>
             /\ \E t \in DOMAIN calls : calls[t].op = "debug" /\ calls' = Remove(calls, t)
             /\ \A c \in Clients : Ready(c)' = Ready(c) /\ NotConnected(c)' = NotConnected(c)]_vars

\* The attach failed while a compile of the Ready session is pending.
C30_Witness ==
    /\ last.ev = "debugStartFailed" /\ last.info = "attach"
    /\ Ready("A") /\ ~NotConnected("A")
    /\ \E t \in DOMAIN calls : calls[t].op = "compile" /\ calls[t].key \in activeRequests["A"]

\* The step reads a notification (other than build/publishDiagnostics).
NotificationRead ==
    last'.ev = "unhandled" \/ (last'.ev = "dispatch" /\ last'.op # "build/publishDiagnostics")

\* C31: reading a notification, whatever its method, with or without
\* params or fields, leaves the connection state of every session and every
\* pending request as they were; build/showMessage with params goes to
\* error for type 1, to warning for type 2 and to info otherwise.
C31_NotificationsHarmless ==
    [][NotificationRead
          => /\ UNCHANGED <<isConnected, connection, serverProcess, connections, activeRequests,
                           calls, proc>>
             /\ \A ty \in MessageTypes :
                    (\E p \in DOMAIN proc :
                         OnNotification(p, "build/showMessage", [present |-> TRUE, type |-> ty]))
                        => last'.info = CASE ty = 1 -> "error"
                                          [] ty = 2 -> "warning"
                                          [] OTHER -> "info"]_vars

\* A build/showMessage without params was read while a compile is pending.
C31_Witness ==
    /\ last.ev = "dispatch" /\ last.op = "build/showMessage" /\ last.info = "handlerError"
    /\ isConnected["A"]
    /\ \E t \in DOMAIN calls : calls[t].op = "compile" /\ calls[t].st = "sent"

\* The operation a request method belongs to, for the four gated methods.
GatedOps == {"compile", "test", "run", "debug"}

\* The requests the step wrote to process p: <<method, params>> pairs.
RequestsWritten(p) ==
    {<<proc'[p].sent[i], proc'[p].params[i]>> : i \in (Len(proc[p].sent) + 1)..Len(proc'[p].sent)}

\* C32: no buildTarget/compile, buildTarget/test, buildTarget/run or
\* debugSession/start request is written for a target whose capability flag
\* for that operation is false.
C32_CapabilityGated ==
    [][\A p \in DOMAIN proc, op \in GatedOps, tgt \in WorkspaceTargets :
          <<Method(op), <<tgt>> >> \in RequestsWritten(p) => op \in Capabilities(tgt)]_vars

\* The server processes of session c that are running.
LiveProcesses(c) == {p \in DOMAIN proc : proc[p].owner = c /\ proc[p].status = "running"}

\* C33: a session owns at most one live server process at every moment,
\* whatever connect() calls overlapped or failed before.
C33_OneLiveProcess == \A c \in Clients : Cardinality(LiveProcesses(c)) <= 1

\* C34: the exit event of a process of an earlier attempt, delivered while
\* the client is Ready on a newer process, leaves the client Ready with its
\* connection and process references.
C34_StaleExitIgnored ==
    [][\A p \in DOMAIN proc :
          LET c == proc[p].owner
          IN (OnExit(p) /\ isConnected[c] /\ serverProcess[c] # p /\ connection[c] # p)
             => /\ isConnected'[c]
                /\ connection'[c] = connection[c]
                /\ serverProcess'[c] = serverProcess[c]]_vars

\* C37: when connect() fails, the server process and the JSON-RPC connection
\* the failed attempt started are released: the process is not running and
\* the session's fields no longer refer to it.
C37_FailedConnectReleases ==
    [][\A t \in DOMAIN calls :
          LET c == calls[t].c
              p == calls[t].p
          IN (calls[t].op = "connect" /\ p # NoProc /\ ConnectFailed(t, c, "initFailed"))
             => /\ proc'[p].status # "running"
                /\ connection'[c] # p
                /\ serverProcess'[c] # p]_vars

\* C35: when disconnectFromServer(id) of a connected connection completes,
\* the build/shutdown request having failed or not, the client is not
\* connected and the server process of the session is stopped, so that the
\* guard of a later connect() lets it spawn afresh.
C35_DisconnectedAfterDisconnect ==
    [][\A c \in Clients :
          (last'.c = c /\ last'.ev \in {"disconnected", "disconnectFailed"})
          => /\ ~AlreadyConnected(c)'
             /\ connection[c] # NoProc => ~Running(connection[c])']_vars

\* C36: a connectToServer(id) during which removeConnection(id) was invoked
\* leaves, when it completes, a connection that is not connected and no
\* running server process for it: every live process belongs to a
\* connection that is still in the registry.
C36_NoProcessWithoutConnection ==
    [][\A c \in Clients :
          (~connections[c].registered /\ last'.c = c /\ last'.ev = "connected")
          => ~isConnected'[c] /\ LiveProcesses(c)' = {}]_vars

\* C38: every addConnection(config) puts its connection under an identifier
\* that no connection of the registry has: the registry grows by exactly
\* one and every connection that was there stays as it was.
C38_FreshIdentifier ==
    [][last'.ev = "connectionAdded"
          => /\ last'.info \notin DOMAIN connectionIds
             /\ Cardinality(DOMAIN connectionIds') = Cardinality(DOMAIN connectionIds) + 1
             /\ \A id \in DOMAIN connectionIds : connectionIds'[id] = connectionIds[id]]_vars

\* The selection sv[i] of target t is one the target's selector list
\* declares, with an option the selector advertises.
Advertised(t, sel) ==
    /\ \E j \in DOMAIN SelectorsOf(t) : SelectorsOf(t)[j] = sel.key
    /\ \E i \in DOMAIN OptionsOf(sel.key) : OptionsOf(sel.key)[i] = sel.option

\* C39: in every state of a resolver, every recorded selection of a target
\* is keyed by a selector of the target's current selector list and holds
\* one of that selector's advertised options.
C39_SelectionsDeclared ==
    \A m \in Managers, t \in SelectorTargets :
        buildData[m][t].has =>
            \A i \in DOMAIN buildData[m][t].selectedValues :
                Advertised(t, buildData[m][t].selectedValues[i])

\* C40: extractCustomData run again for a target whose data is already
\* extracted, with the same selector payload, leaves what
\* getCompileArguments returns for the target as it was, whether the
\* update() of the last selection succeeded, failed or is still pending.
C40_ReExtractKeepsArguments ==
    [][\A t \in ResolverTargets :
          (ExtractCustomData(t) /\ Extracted(t))
          => GetCompileArguments(t)' = GetCompileArguments(t)]_vars

\* A re-extraction was made after the store failed to write the selection:
\* the arguments are there, the storage has nothing for the target.
C40_Witness ==
    /\ last.ev = "extracted" /\ last.info = <<"app">>
    /\ NoSavePending
    /\ GetCompileArguments("app") = <<"--release", "-O">>
    /\ ~workspaceState.stored[StorageKey("generic")]["app"].has

====
